---- MODULE Spec2Model ----
(***************************************************************************)
(* A model of db/DBConnector.py: the check-then-insert upserts of the      *)
(* song, artist and album tables, the relation linker, and the schema      *)
(* operations, over a PostgreSQL database modelled as typed tables with    *)
(* foreign keys (ON DELETE CASCADE).                                       *)
(*                                                                         *)
(* Values are tagged tuples: <<"str", chars>>, <<"num", n>>,               *)
(* <<"pair", v1, v2>>, <<"date", y, m, d>>, <<"uuid", table, n>> and       *)
(* <<"none">> (Python None, SQL NULL).  Text is a sequence of one-char     *)
(* strings so that int() and the parameter coercions can inspect it.       *)
(* A song record (a Python dict) is a sequence of <<key, value>> pairs in  *)
(* the dict's iteration order.                                             *)
(***************************************************************************)
EXTENDS Integers, Sequences, FiniteSets, TLC

VARIABLES exists, fks, rows, nextId, last, calls, failed, writers, io

vars == <<exists, fks, rows, nextId, last, calls, failed, writers, io>>

----------------------------------------------------------------------------
(* Bounds of the model. *)

\* Number of calls of the public interface in one serial run.
MaxCalls == 3

\* Number of calls in one run of the row tests; one of them can be a whole
\* row_tester, which makes six calls of the interface.
MaxRowCalls == 2

\* Number of calls in one run with defective records and ids.
MaxFaultyCalls == 2

\* Number of calls in one run of lookups and date conversions.
MaxLookupCalls == 2

\* Number of calls in one run that makes, resets and empties the tables.
MaxSchemaCalls == 2

----------------------------------------------------------------------------
(* Values *)

None == <<"none">>
Str(chars) == <<"str", chars>>
Num(n) == <<"num", n>>
Pair(a, b) == <<"pair", a, b>>
Date(y, m, d) == <<"date", y, m, d>>
Uuid(t, n) == <<"uuid", t, n>>

Tag(v) == v[1]
IsNone(v) == Tag(v) = "none"

\* Outcomes that are not values: a caught database error, and an exception
\* that leaves the method.
Err == <<"error">>
Raised == <<"raised">>

DigitChars == <<"0", "1", "2", "3", "4", "5", "6", "7", "8", "9">>

IsDigit(c) == \E i \in 1..10 : DigitChars[i] = c

DigitValue(c) == (CHOOSE i \in 1..10 : DigitChars[i] = c) - 1

AllDigits(chars) == Len(chars) > 0 /\ \A i \in 1..Len(chars) : IsDigit(chars[i])

RECURSIVE DigitsValue(_)
DigitsValue(chars) ==
    IF Len(chars) = 0 THEN 0
    ELSE 10 * DigitsValue(SubSeq(chars, 1, Len(chars) - 1))
         + DigitValue(chars[Len(chars)])

\* datetime.MINYEAR and datetime.MAXYEAR
MINYEAR == 1
MAXYEAR == 9999

\* int(v): the number, ValueError for a str that is no decimal literal,
\* TypeError for a value that is neither a str nor a number.  (The text of
\* the model is made of digits, letters and "-"; signs, blanks and
\* underscores, which int() also reads, do not occur in it.)
IntOf(v) ==
    CASE Tag(v) = "num" -> [exc |-> "none", n |-> v[2]]
      [] Tag(v) = "str" ->
            IF AllDigits(v[2]) THEN [exc |-> "none", n |-> DigitsValue(v[2])]
            ELSE [exc |-> "ValueError", n |-> 0]
      [] OTHER -> [exc |-> "TypeError", n |-> 0]

\* date(year, 1, 1) raises ValueError unless MINYEAR <= year <= MAXYEAR.
ValidYear(n) == MINYEAR <= n /\ n <= MAXYEAR

\* date(int(v), 1, 1), Raised when int() or date() raises.
YearDate(v) ==
    IF IntOf(v).exc = "none" /\ ValidYear(IntOf(v).n)
    THEN Date(IntOf(v).n, 1, 1)
    ELSE Raised

\* The number of days of the month m of the year y.
DaysInMonth(y, m) ==
    IF m \in {4, 6, 9, 11} THEN 30
    ELSE IF m # 2 THEN 31
    ELSE IF y % 4 = 0 /\ (y % 100 # 0 \/ y % 400 = 0) THEN 29
    ELSE 28

\* date(y, m, d) raises ValueError unless the three make a calendar date.
ValidDate(y, m, d) ==
    ValidYear(y) /\ m \in 1..12 /\ d \in 1..DaysInMonth(y, m)

\* re.match(r'^\d{4}$', ...) and the two longer patterns, as the lengths of
\* the digit groups; "$" also matches before a final newline.
MatchesDigits(chars, groups) ==
    LET body == IF Len(chars) > 0 /\ chars[Len(chars)] = "\n"
                THEN SubSeq(chars, 1, Len(chars) - 1) ELSE chars
        starts == [i \in 1..Len(groups) |-> 1 + 5 * (IF i > 1 THEN 1 ELSE 0)
                                               + 3 * (IF i > 2 THEN 1 ELSE 0)]
    IN /\ Len(body) = 4 + 3 * (Len(groups) - 1)
       /\ \A i \in 1..Len(groups) :
             /\ AllDigits(SubSeq(body, starts[i], starts[i] + groups[i] - 1))
             /\ i > 1 => body[starts[i] - 1] = "-"

\* The number read from the digit group that starts at position i and has n
\* digits (int() strips the newline that can follow the last group).
GroupValue(chars, i, n) == DigitsValue(SubSeq(chars, i, i + n - 1))

\* get_correct_date_format(date_string): the date for the shapes YYYY-MM-DD,
\* YYYY-MM and YYYY, None for any other shape, and Raised when date() raises
\* ValueError for a month, day or year out of range.
get_correct_date_format(v) ==
    LET chars == v[2]
        y == GroupValue(chars, 1, 4)
        m == GroupValue(chars, 6, 2)
        d == GroupValue(chars, 9, 2)
    IN IF MatchesDigits(chars, <<4, 2, 2>>)
       THEN IF ValidDate(y, m, d) THEN Date(y, m, d) ELSE Raised
       ELSE IF MatchesDigits(chars, <<4, 2>>)
       THEN IF ValidDate(y, m, 1) THEN Date(y, m, 1) ELSE Raised
       ELSE IF MatchesDigits(chars, <<4>>)
       THEN IF ValidDate(y, 1, 1) THEN Date(y, 1, 1) ELSE Raised
       ELSE None

RECURSIVE NumText(_)
\* The text form of a number, as a cast to TEXT writes it.
NumText(n) ==
    IF n < 10 THEN <<DigitChars[n + 1]>>
    ELSE NumText(n \div 10) \o <<DigitChars[(n % 10) + 1]>>

----------------------------------------------------------------------------
(* Records: Python dicts in iteration order *)

HasKey(rec, k) == \E i \in 1..Len(rec) : rec[i][1] = k

Get(rec, k) == rec[CHOOSE i \in 1..Len(rec) : rec[i][1] = k][2]

Keys(rec) == [i \in 1..Len(rec) |-> rec[i][1]]

InSeq(x, s) == \E i \in 1..Len(s) : s[i] = x

\* rec without the key k (a dict that never had it)
Without(rec, k) == SelectSeq(rec, LAMBDA p : p[1] # k)

\* rec with the value of key k replaced, in place
With(rec, k, v) == [i \in 1..Len(rec) |-> IF rec[i][1] = k THEN <<k, v>> ELSE rec[i]]

\* rec with a new key inserted right after the key k
InsertAfter(rec, k, p) ==
    LET i == CHOOSE j \in 1..Len(rec) : rec[j][1] = k
    IN SubSeq(rec, 1, i) \o <<p>> \o SubSeq(rec, i + 1, Len(rec))

----------------------------------------------------------------------------
(* The schema of create_tables *)

DimTables == {"song", "artist", "album"}
RelTables == {"song_album", "song_artist", "album_artist"}
TableNames == DimTables \cup RelTables

\* The order of the CREATE TABLE statements.
CreateOrder == <<"song", "artist", "album", "song_album", "song_artist", "album_artist">>

SongColumns ==
    <<"id", "comment", "title", "valence", "arousal",
      "danceable_not_danceable", "aggressive_non_aggressive", "happy_non_happy",
      "party_non_party", "relaxed_non_relaxed", "sad_non_sad",
      "acoustic_non_acoustic", "electronic_non_electronic", "instrumental_voice",
      "female_male", "bright_dark", "acoustic_electronic", "dry_wet", "bpm">>

Columns(t) ==
    CASE t = "song" -> SongColumns
      [] t = "artist" -> <<"id", "name">>
      [] t = "album" -> <<"id", "title", "date">>
      [] t = "song_album" -> <<"id", "song_id", "album_id", "tracknumber">>
      [] t = "song_artist" -> <<"id", "song_id", "artist_id">>
      [] t = "album_artist" -> <<"id", "album_id", "artist_id">>

ColType(t, c) ==
    CASE c = "id" -> "uuid"
      [] c \in {"song_id", "album_id", "artist_id"} -> "uuid"
      [] c \in {"comment", "title", "name"} -> "text"
      [] c = "date" -> "date"
      [] c = "tracknumber" -> "int"
      [] OTHER -> "float"

NotNull(t, c) ==
    \/ c = "id"
    \/ t = "song" /\ c = "title"
    \/ t = "artist" /\ c = "name"
    \/ t = "album" /\ c = "title"

\* The two tables a relation table references, in column order.
RefTables(rel) ==
    CASE rel = "song_album" -> <<"song", "album">>
      [] rel = "song_artist" -> <<"song", "artist">>
      [] rel = "album_artist" -> <<"album", "artist">>

\* REFERENCES ... ON DELETE CASCADE: the constraints create_tables declares
\* for a relation table, as <<relation table, referenced table>>.
ForeignKeysOf(rel) == {<<rel, RefTables(rel)[1]>>, <<rel, RefTables(rel)[2]>>}

\* The column of a relation table that references the table t.
RefColumn(t) ==
    CASE t = "song" -> "song_id"
      [] t = "album" -> "album_id"
      [] t = "artist" -> "artist_id"

ColIndex(t, c) == CHOOSE i \in 1..Len(Columns(t)) : Columns(t)[i] = c

Cell(t, row, c) == row[ColIndex(t, c)]

----------------------------------------------------------------------------
(* The database: typed parameters, SELECT, INSERT, DELETE, DROP *)

\* A parameter bound to "column = %s": the value compared, None for NULL,
\* Err when the server finds no "=" operator for the two types or cannot read
\* the text as the column's type.
CompareParam(ty, v) ==
    CASE IsNone(v) -> None
      [] ty = "text" -> IF Tag(v) = "str" THEN v ELSE Err
      [] ty = "float" ->
            IF Tag(v) = "num" THEN v
            ELSE IF Tag(v) = "str" /\ AllDigits(v[2]) THEN Num(DigitsValue(v[2]))
            ELSE Err
      [] ty = "date" -> IF Tag(v) = "date" THEN v ELSE Err
      [] ty = "uuid" -> IF Tag(v) = "uuid" THEN v ELSE Err
      [] OTHER -> Err

\* A parameter assigned to a column by INSERT: numbers are cast to text by
\* assignment, text is read as a number for a FLOAT column.
StoreParam(ty, v) ==
    CASE IsNone(v) -> None
      [] ty = "text" ->
            IF Tag(v) = "str" THEN v
            ELSE IF Tag(v) = "num" THEN Str(NumText(v[2]))
            ELSE Err
      [] ty = "float" ->
            IF Tag(v) = "num" THEN v
            ELSE IF Tag(v) = "str" /\ AllDigits(v[2]) THEN Num(DigitsValue(v[2]))
            ELSE Err
      [] ty = "date" -> IF Tag(v) = "date" THEN v ELSE Err
      [] ty = "uuid" -> IF Tag(v) = "uuid" THEN v ELSE Err
      [] OTHER -> Err

\* What a call has done to the storage: the connections psycopg.connect has
\* opened for it, whether an INSERT statement of it has failed, whether the
\* SELECT of an existence check of it has failed, the relation tables
\* add_relation was called for, in the order of the calls, and the
\* connections that are open, each with its transaction.
NoIO == [conns |-> 0, inserr |-> FALSE, lookerr |-> FALSE, links |-> <<>>, open |-> 0]

\* The database as one value, at the start of a call.
DB == [exists |-> exists, fks |-> fks, rows |-> rows, nextId |-> nextId, failed |-> failed,
       io |-> NoIO]

\* psycopg.connect(...) has returned a connection.
Connect(db) == [db EXCEPT !.io.conns = @ + 1, !.io.open = @ + 1]

\* The INSERT statement has raised and the handler has rolled back.
InsertFailed(db) == [db EXCEPT !.failed = TRUE, !.io.inserr = TRUE]

\* The SELECT of an existence check has raised and the handler has rolled
\* back.
LookupFailed(db) == [db EXCEPT !.failed = TRUE, !.io.lookerr = TRUE]

\* add_relation has opened its connection for the relation table rel_table.
Linking(db, rel_table) == [Connect(db) EXCEPT !.io.links = Append(@, rel_table)]

Out(db, ret) == [db |-> db, ret |-> ret]

\* A with block that leaves its connection open.
Exit_leaking(db) == db

\* The exit of "with psycopg.connect(...) as conn": the transaction is
\* committed, or rolled back when an exception leaves the block, and the
\* connection is closed, on every way out of the block.
Exit(db) == [db EXCEPT !.io.open = @ - 1]

\* The outcome o, and the outcomes outs, of the body of a with block, after
\* the exit of the block.
Exited(o) == [o EXCEPT !.db = Exit(@)]
Exits(outs) == {Exited(o) : o \in outs}

Fail(db) == [db EXCEPT !.failed = TRUE]

\* SELECT id FROM t WHERE cols[1] = %s AND ... with the parameters vals: a
\* database error (no such table, a parameter count that differs from the
\* placeholder count, a parameter of the wrong type), or the ids of the
\* matching rows.  A NULL parameter matches no row.
SelectIds(db, t, cols, vals) ==
    IF t \notin db.exists \/ Len(vals) # Len(cols) THEN [ok |-> FALSE, ids |-> {}]
    ELSE LET ps == [i \in 1..Len(cols) |-> CompareParam(ColType(t, cols[i]), vals[i])]
         IN IF \E i \in 1..Len(ps) : ps[i] = Err THEN [ok |-> FALSE, ids |-> {}]
            ELSE [ok |-> TRUE,
                  ids |-> {r[1] : r \in {x \in db.rows[t] :
                              \A i \in 1..Len(cols) :
                                  ~IsNone(ps[i]) /\ Cell(t, x, cols[i]) = ps[i]}}]

\* The foreign keys of the row r of t hold: every constrained column is NULL
\* or the id of a row of the referenced table.
ForeignKeysHold(db, t, r) ==
    \A fk \in db.fks :
        fk[1] = t =>
            LET v == Cell(t, r, RefColumn(fk[2]))
            IN IsNone(v) \/ \E x \in db.rows[fk[2]] : x[1] = v

\* INSERT INTO t (cols) VALUES (vals) RETURNING id, committed: a database
\* error (no such table, parameter count, type, NOT NULL, primary key or
\* foreign key), or the database with the new row and the row's id.  A column
\* not named gets its default: a fresh uuid for id, NULL otherwise.
InsertRow(db, t, cols, vals) ==
    IF t \notin db.exists \/ Len(vals) # Len(cols) THEN [ok |-> FALSE, db |-> db, ret |-> None]
    ELSE LET fresh == Uuid(t, db.nextId[t])
             row == [i \in 1..Len(Columns(t)) |->
                        LET c == Columns(t)[i]
                        IN IF InSeq(c, cols)
                           THEN StoreParam(ColType(t, c),
                                           vals[CHOOSE j \in 1..Len(cols) : cols[j] = c])
                           ELSE IF c = "id" THEN fresh ELSE None]
         IN IF \/ \E i \in 1..Len(row) : row[i] = Err
               \/ \E i \in 1..Len(row) : NotNull(t, Columns(t)[i]) /\ IsNone(row[i])
               \/ \E x \in db.rows[t] : x[1] = row[1]
               \/ ~ForeignKeysHold(db, t, row)
            THEN [ok |-> FALSE, db |-> db, ret |-> None]
            ELSE [ok |-> TRUE,
                  db |-> [db EXCEPT !.rows[t] = @ \cup {row}, !.nextId[t] = @ + 1],
                  ret |-> row[1]]

\* DELETE FROM t on tables declared without ON DELETE CASCADE and without a
\* check of the references: only the rows of t go.
DeleteAll_no_cascade(db, t) == [db EXCEPT !.rows[t] = {}]

\* DELETE FROM t, committed: the database without the rows of t and, by
\* ON DELETE CASCADE, without the rows that reference them through a foreign
\* key that still exists.  (The statement fails when t does not exist.)
DeleteAll(db, t) ==
    [db EXCEPT !.rows =
            [u \in TableNames |->
                IF u = t THEN {}
                ELSE IF <<u, t>> \in db.fks
                THEN {r \in db.rows[u] :
                        ~\E x \in db.rows[t] : x[1] = Cell(u, r, RefColumn(t))}
                ELSE db.rows[u]]]

\* DROP TABLE IF EXISTS t CASCADE: the table and its rows go, and so does
\* every foreign key that references it; the referencing rows stay.
DropTable(db, t) ==
    [db EXCEPT !.exists = @ \ {t},
               !.rows[t] = {},
               !.fks = {fk \in @ : fk[1] # t /\ fk[2] # t}]

\* CREATE TABLE without IF NOT EXISTS semantics: a table that exists is
\* replaced by a new, empty one.
CreateTable_replacing(db, t) ==
    [db EXCEPT !.exists = @ \cup {t},
               !.rows[t] = {},
               !.fks = IF t \in RelTables THEN @ \cup ForeignKeysOf(t) ELSE @]

\* CREATE TABLE IF NOT EXISTS t (...): a relation table that is created gets
\* its two foreign keys; a table that exists is left as it is.
CreateTable(db, t) ==
    IF t \in db.exists THEN db
    ELSE [db EXCEPT !.exists = @ \cup {t},
                    !.fks = IF t \in RelTables THEN @ \cup ForeignKeysOf(t) ELSE @]

----------------------------------------------------------------------------
(* DBConnector.  Each method is the set of its possible outcomes         *)
(* [db, ret]: the database it leaves and what it returns, Raised when an *)
(* exception leaves it.  up says whether psycopg.connect succeeds.       *)

sql_columns_mapping(column) ==
    CASE column = "album" -> "title"
      [] column = "artist" -> "name"
      [] OTHER -> column

\* The parameters of the WHERE condition: the values of the record's keys
\* that are lookup columns, in the record's order; Raised when date() or
\* int() raises.
LookupValues(columns, rec) ==
    LET hit == SelectSeq(rec, LAMBDA p : InSeq(p[1], columns))
        vals == [i \in 1..Len(hit) |->
                    IF hit[i][1] = "date" THEN YearDate(hit[i][2]) ELSE hit[i][2]]
    IN [raised |-> \E i \in 1..Len(vals) : vals[i] = Raised, vals |-> vals]

\* is_row_in_table without its except handler: the error of the SELECT
\* leaves the method.
is_row_in_table_uncaught(db, up, table_name, columns, rec) ==
    LET conds == [i \in 1..Len(columns) |-> sql_columns_mapping(columns[i])]
        vals == LookupValues(columns, rec)
    IN IF vals.raised THEN {Out(db, Raised)}
       ELSE IF ~up THEN {Out(Fail(db), Raised)}
       ELSE LET conn == Connect(db)
                sel == SelectIds(conn, table_name, conds, vals.vals)
            IN Exits(IF ~sel.ok THEN {Out(LookupFailed(conn), Raised)}
                     ELSE IF sel.ids = {} THEN {Out(conn, None)}
                     ELSE {Out(conn, id) : id \in sel.ids})

is_row_in_table(db, up, table_name, columns, rec) ==
    LET conds == [i \in 1..Len(columns) |-> sql_columns_mapping(columns[i])]
        vals == LookupValues(columns, rec)
    IN IF vals.raised THEN {Out(db, Raised)}
       ELSE IF ~up THEN {Out(Fail(db), Raised)}
       ELSE LET conn == Connect(db)
                sel == SelectIds(conn, table_name, conds, vals.vals)
            IN Exits(IF ~sel.ok THEN {Out(LookupFailed(conn), None)}
                     ELSE IF sel.ids = {} THEN {Out(conn, None)}
                     ELSE {Out(conn, id) : id \in sel.ids})

\* is_relation_in_table with a condition that no row satisfies.
is_relation_in_table_never(db, up, rel_table, first_table, first_id, second_table, second_id) ==
    IF ~up THEN {Out(Fail(db), Raised)} ELSE Exits({Out(Connect(db), None)})

is_relation_in_table(db, up, rel_table, first_table, first_id, second_table, second_id) ==
    IF ~up THEN {Out(Fail(db), Raised)}
    ELSE LET conn == Connect(db)
             sel == SelectIds(conn, rel_table,
                              <<RefColumn(first_table), RefColumn(second_table)>>,
                              <<first_id, second_id>>)
         IN Exits(IF ~sel.ok THEN {Out(LookupFailed(conn), None)}
                  ELSE IF sel.ids = {} THEN {Out(conn, None)}
                  ELSE {Out(conn, id) : id \in sel.ids})

\* Lookup columns of add_song that leave the two mood columns out.
SongLookupTitleOnly == <<"title">>

\* Lookup columns of add_song that take the tempo in.
SongLookupWithBpm == <<"title", "happy_non_happy", "sad_non_sad", "bpm">>

SongLookupColumns == <<"title", "happy_non_happy", "sad_non_sad">>
AlbumLookupColumns == <<"album", "date">>
ArtistLookupColumns == <<"artist">>

\* The keys add_song leaves out of the insert.
NotSongKeys == {"album", "artist", "date", "tracknumber"}

RECURSIVE SongValues(_)
\* The values add_song collects from the record, in the record's order, the
\* valence_arousal pair expanded into its two elements.
SongValues(kept) ==
    IF Len(kept) = 0 THEN <<>>
    ELSE LET p == Head(kept)
         IN (IF p[1] = "valence_arousal" THEN <<p[2][2], p[2][3]>> ELSE <<p[2]>>)
            \o SongValues(Tail(kept))

\* song_insert with one fixed uuid instead of a fresh uuid4() per call.
song_insert_fixed_uuid(db, up, rec) ==
    LET kept == SelectSeq(rec, LAMBDA p : p[1] \notin NotSongKeys)
        conn == Connect(db)
        ins == InsertRow(conn, "song", SongColumns, <<Uuid("song", 1)>> \o SongValues(kept))
    IN Exited(IF ins.ok THEN Out(ins.db, ins.ret) ELSE Out(InsertFailed(conn), None))

\* add_song after the lookup found nothing: the column list is read from the
\* table, one placeholder per column, and the values are the record's, by
\* position.
song_insert(db, up, rec) ==
    LET kept == SelectSeq(rec, LAMBDA p : p[1] \notin NotSongKeys)
        conn == Connect(db)
    IN IF ~up THEN Out(Fail(db), Raised)
       ELSE Exited(
            IF "song" \notin db.exists THEN Out(Fail(conn), None)
            ELSE IF \E i \in 1..Len(kept) :
                       kept[i][1] = "valence_arousal" /\ Tag(kept[i][2]) # "pair"
            THEN Out(conn, Raised)
            ELSE LET ins == InsertRow(conn, "song", SongColumns,
                                      <<Uuid("song", db.nextId["song"])>>
                                          \o SongValues(kept))
                 IN IF ~HasKey(rec, "title")
                    THEN Out(IF ins.ok THEN conn ELSE InsertFailed(conn), Raised)
                    ELSE IF ins.ok THEN Out(ins.db, ins.ret)
                    ELSE Out(InsertFailed(conn), None))

\* add_song without the existence check.
add_song_unchecked(db, up, rec) == {song_insert(db, up, rec)}

\* add_song with an update path: a row that is found gets the record's bpm.
add_song_updating(db, up, rec) ==
    UNION {IF l.ret = None THEN {song_insert(l.db, up, rec)}
           ELSE IF l.ret = Raised \/ ~HasKey(rec, "bpm") THEN {l}
           ELSE {Out([l.db EXCEPT !.rows["song"] =
                        {IF r[1] = l.ret
                         THEN [r EXCEPT ![ColIndex("song", "bpm")] = Get(rec, "bpm")]
                         ELSE r : r \in @}],
                     l.ret)} :
           l \in is_row_in_table(db, up, "song", SongLookupColumns, rec)}

\* add_song that keeps the first id it has made and returns it again
\* without a query.
add_song_cached(db, up, rec) ==
    IF db.nextId["song"] > 1 /\ up
    THEN {Out(db, Uuid("song", 1))}
    ELSE UNION {IF l.ret # None THEN {l} ELSE {song_insert(l.db, up, rec)} :
                l \in is_row_in_table(db, up, "song", SongLookupColumns, rec)}

add_song(db, up, rec) ==
    UNION {IF l.ret # None THEN {l} ELSE {song_insert(l.db, up, rec)} :
           l \in is_row_in_table(db, up, "song", SongLookupColumns, rec)}

\* add_album after the lookup found nothing.
album_insert(db, up, rec) ==
    IF ~HasKey(rec, "album") THEN Out(db, None)
    ELSE IF ~HasKey(rec, "date") THEN Out(db, Raised)
    ELSE LET year == IntOf(Get(rec, "date"))
         IN IF year.exc = "ValueError" THEN Out(db, None)
            ELSE IF year.exc = "TypeError" \/ ~ValidYear(year.n) THEN Out(db, Raised)
            ELSE IF ~up THEN Out(Fail(db), Raised)
            ELSE LET conn == Connect(db)
                     ins == InsertRow(conn, "album", <<"title", "date">>,
                                      <<Get(rec, "album"), Date(year.n, 1, 1)>>)
                 IN Exited(IF ins.ok THEN Out(ins.db, ins.ret)
                           ELSE Out(InsertFailed(conn), None))

\* add_album without the existence check.
add_album_unchecked(db, up, rec) == {album_insert(db, up, rec)}

add_album(db, up, rec) ==
    UNION {IF l.ret # None THEN {l} ELSE {album_insert(l.db, up, rec)} :
           l \in is_row_in_table(db, up, "album", AlbumLookupColumns, rec)}

\* add_artist after the lookup found nothing.
artist_insert(db, up, rec) ==
    IF ~up THEN Out(Fail(db), Raised)
    ELSE IF ~HasKey(rec, "artist") THEN Exited(Out(Connect(db), None))
    ELSE LET conn == Connect(db)
             ins == InsertRow(conn, "artist", <<"name">>, <<Get(rec, "artist")>>)
         IN Exited(IF ins.ok THEN Out(ins.db, ins.ret) ELSE Out(InsertFailed(conn), None))

\* add_artist without the existence check.
add_artist_unchecked(db, up, rec) == {artist_insert(db, up, rec)}

\* add_artist that returns None when its existence check fails.
add_artist_stopping(db, up, rec) ==
    UNION {IF l.ret # None \/ l.db.io.lookerr THEN {l}
           ELSE {artist_insert(l.db, up, rec)} :
           l \in is_row_in_table(db, up, "artist", ArtistLookupColumns, rec)}

add_artist(db, up, rec) ==
    UNION {IF l.ret # None THEN {l} ELSE {artist_insert(l.db, up, rec)} :
           l \in is_row_in_table(db, up, "artist", ArtistLookupColumns, rec)}

\* relation_insert with the two ids in each other's column.
relation_insert_swapped(db, rel_table, first_table, first_id, second_table, second_id) ==
    LET ins == InsertRow(db, rel_table,
                         <<RefColumn(first_table), RefColumn(second_table)>>,
                         <<second_id, first_id>>)
    IN IF ins.ok THEN Out(ins.db, ins.ret) ELSE Out(InsertFailed(db), None)

\* add_relation after the lookup found nothing.
relation_insert(db, rel_table, first_table, first_id, second_table, second_id) ==
    LET ins == InsertRow(db, rel_table,
                         <<RefColumn(first_table), RefColumn(second_table)>>,
                         <<first_id, second_id>>)
    IN IF ins.ok THEN Out(ins.db, ins.ret) ELSE Out(InsertFailed(db), None)

add_relation(db, up, rel_table, first_table, first_id, second_table, second_id) ==
    IF ~up THEN {Out(Fail(db), Raised)}
    ELSE Exits(UNION {IF l.ret # None THEN {l}
                      ELSE {relation_insert(l.db, rel_table, first_table, first_id,
                                            second_table, second_id)} :
                      l \in is_relation_in_table(Linking(db, rel_table), up, rel_table,
                                                 first_table, first_id, second_table,
                                                 second_id)})

\* add_data that links album and artist first, then song and album, then
\* song and artist.
add_data_other_order(db, up, rec) ==
    UNION {
      IF s.ret = Raised THEN {[db |-> s.db, ret |-> Raised, ids |-> <<>>, rels |-> <<>>]}
      ELSE UNION {
        IF al.ret = Raised
        THEN {[db |-> al.db, ret |-> Raised, ids |-> <<s.ret>>, rels |-> <<>>]}
        ELSE UNION {
          IF ar.ret = Raised
          THEN {[db |-> ar.db, ret |-> Raised, ids |-> <<s.ret, al.ret>>, rels |-> <<>>]}
          ELSE UNION {
            UNION {
              {[db |-> r2.db,
                ret |-> IF Raised \in {r1.ret, r2.ret, r3.ret} THEN Raised ELSE None,
                ids |-> <<s.ret, al.ret, ar.ret>>,
                rels |-> <<r1.ret, r2.ret, r3.ret>>] :
               r2 \in add_relation(r1.db, up, "song_artist", "song", s.ret, "artist", ar.ret)} :
              r1 \in add_relation(r3.db, up, "song_album", "song", s.ret, "album", al.ret)} :
            r3 \in add_relation(ar.db, up, "album_artist", "album", al.ret, "artist", ar.ret)} :
          ar \in add_artist(al.db, up, rec)} :
        al \in add_album(s.db, up, rec)} :
      s \in add_song(db, up, rec)}

\* add_data in one transaction: when a step raises or returns None, the rows
\* of the steps before it are rolled back.
add_data_atomic(db, up, rec) ==
    {IF \/ o.ret = Raised
        \/ \E i \in 1..Len(o.ids) : o.ids[i] = None
        \/ \E j \in 1..Len(o.rels) : o.rels[j] = None
     THEN [o EXCEPT !.db.rows = db.rows]
     ELSE o :
     o \in UNION {
      IF s.ret = Raised THEN {[db |-> s.db, ret |-> Raised, ids |-> <<>>, rels |-> <<>>]}
      ELSE UNION {
        IF al.ret = Raised
        THEN {[db |-> al.db, ret |-> Raised, ids |-> <<s.ret>>, rels |-> <<>>]}
        ELSE UNION {
          IF ar.ret = Raised
          THEN {[db |-> ar.db, ret |-> Raised, ids |-> <<s.ret, al.ret>>, rels |-> <<>>]}
          ELSE UNION {
            UNION {
              {[db |-> r3.db,
                ret |-> IF Raised \in {r1.ret, r2.ret, r3.ret} THEN Raised ELSE None,
                ids |-> <<s.ret, al.ret, ar.ret>>,
                rels |-> <<r1.ret, r2.ret, r3.ret>>] :
               r3 \in add_relation(r2.db, up, "album_artist", "album", al.ret, "artist", ar.ret)} :
              r2 \in add_relation(r1.db, up, "song_artist", "song", s.ret, "artist", ar.ret)} :
            r1 \in add_relation(ar.db, up, "song_album", "song", s.ret, "album", al.ret)} :
          ar \in add_artist(al.db, up, rec)} :
        al \in add_album(s.db, up, rec)} :
      s \in add_song(db, up, rec)}}

\* add_data: the three upserts, then the three links with whatever the
\* upserts returned.  ids are the returns of the upserts that ran and rels
\* those of the links that ran; an exception ends the call where it is raised.
add_data(db, up, rec) ==
    UNION {
      IF s.ret = Raised THEN {[db |-> s.db, ret |-> Raised, ids |-> <<>>, rels |-> <<>>]}
      ELSE UNION {
        IF al.ret = Raised
        THEN {[db |-> al.db, ret |-> Raised, ids |-> <<s.ret>>, rels |-> <<>>]}
        ELSE UNION {
          IF ar.ret = Raised
          THEN {[db |-> ar.db, ret |-> Raised, ids |-> <<s.ret, al.ret>>, rels |-> <<>>]}
          ELSE UNION {
            UNION {
              {[db |-> r3.db,
                ret |-> IF Raised \in {r1.ret, r2.ret, r3.ret} THEN Raised ELSE None,
                ids |-> <<s.ret, al.ret, ar.ret>>,
                rels |-> <<r1.ret, r2.ret, r3.ret>>] :
               r3 \in add_relation(r2.db, up, "album_artist", "album", al.ret, "artist", ar.ret)} :
              r2 \in add_relation(r1.db, up, "song_artist", "song", s.ret, "artist", ar.ret)} :
            r1 \in add_relation(ar.db, up, "song_album", "song", s.ret, "album", al.ret)} :
          ar \in add_artist(al.db, up, rec)} :
        al \in add_album(s.db, up, rec)} :
      s \in add_song(db, up, rec)}

RECURSIVE CreateAll(_, _)
CreateAll(db, names) ==
    IF Len(names) = 0 THEN db ELSE CreateAll(CreateTable(db, Head(names)), Tail(names))

\* A handler that commits the work done before the failing statement.
rollback_committing(conn, work) == Fail(work)

\* conn.rollback() in the except handler of create_tables: the work of the
\* transaction is discarded and the database of the connection is left.
rollback(conn, work) == Fail(conn)

\* create_tables when its CREATE TABLE statement number failing raises (0:
\* none does): the statements before it have run in the transaction, the
\* handler reports the error and rolls back, and nothing is raised.
create_tables_with(db, up, failing) ==
    IF ~up THEN Out(Fail(db), Raised)
    ELSE IF failing = 0 THEN Exited(Out(CreateAll(Connect(db), CreateOrder), None))
    ELSE Exited(Out(rollback(Connect(db),
                             CreateAll(Connect(db), SubSeq(CreateOrder, 1, failing - 1))),
                    None))

\* create_tables that drops the tables it finds before it creates them.
create_tables_recreating(db, up) ==
    IF ~up THEN Out(Fail(db), Raised)
    ELSE Exited(Out(CreateAll([Connect(db) EXCEPT !.exists = {}, !.fks = {},
                                                  !.rows = [t \in TableNames |-> {}]],
                              CreateOrder), None))

\* create_tables: one transaction that creates the six tables in order.
create_tables(db, up) ==
    IF ~up THEN Out(Fail(db), Raised)
    ELSE Exited(Out(CreateAll(Connect(db), CreateOrder), None))

drop_table(db, table_name) == Exit(DropTable(Connect(db), table_name))

RECURSIVE DropEach(_, _)
DropEach(db, table_names) ==
    IF Len(table_names) = 0 THEN db
    ELSE DropEach(drop_table(db, Head(table_names)), Tail(table_names))

drop_tables(db, up, table_names) ==
    IF Len(table_names) = 0 THEN Out(db, None)
    ELSE IF ~up THEN Out(Fail(db), Raised)
    ELSE Out(DropEach(db, table_names), None)

\* A loop over the tables that ends at the first DELETE that fails.
RECURSIVE DeleteEachUntilFailure(_, _)
DeleteEachUntilFailure(db, table_names) ==
    IF Len(table_names) = 0 THEN db
    ELSE IF Head(table_names) \notin db.exists THEN Exit(Fail(Connect(db)))
    ELSE DeleteEachUntilFailure(Exit(DeleteAll(Connect(db), Head(table_names))),
                                Tail(table_names))

\* delete_all_entries_in_table whose DELETE is not committed when the
\* connection is closed.
delete_all_entries_in_table_uncommitted(db, table_name) ==
    IF table_name \in db.exists THEN Exit(Connect(db)) ELSE Exit(Fail(Connect(db)))

\* delete_all_entries_in_table: a DELETE that fails (no such table) is rolled
\* back and reported; the connection's exit commits.
delete_all_entries_in_table(db, table_name) ==
    IF table_name \in db.exists THEN Exit(DeleteAll(Connect(db), table_name))
    ELSE Exit(Fail(Connect(db)))

RECURSIVE DeleteEach(_, _)
DeleteEach(db, table_names) ==
    IF Len(table_names) = 0 THEN db
    ELSE DeleteEach(delete_all_entries_in_table(db, Head(table_names)), Tail(table_names))

delete_all_entries(db, up, table_names) ==
    IF Len(table_names) = 0 THEN Out(db, None)
    ELSE IF ~up THEN Out(Fail(db), Raised)
    ELSE Out(DeleteEach(db, table_names), None)

----------------------------------------------------------------------------
(* The records the calls are made with *)

\* A song record with the keys of the test fixture song_dict, in its order.
SongDict(title, artist, album, date, happy, bpm) ==
    << <<"album", Str(album)>>, <<"artist", Str(artist)>>,
       <<"comment:n", Str(<<"c">>)>>, <<"date", Str(date)>>,
       <<"title", Str(title)>>, <<"tracknumber", Str(<<>>)>>,
       <<"valence_arousal", Pair(Num(5), Num(6))>>,
       <<"danceable_not_danceable", Num(1)>>, <<"aggressive_non_aggressive", Num(0)>>,
       <<"happy_non_happy", Num(happy)>>, <<"party_non_party", Num(7)>>,
       <<"relaxed_non_relaxed", Num(0)>>, <<"sad_non_sad", Num(2)>>,
       <<"acoustic_non_acoustic", Num(4)>>, <<"electronic_non_electronic", Num(0)>>,
       <<"instrumental_voice", Num(3)>>, <<"female_male", Num(1)>>,
       <<"bright_dark", Num(0)>>, <<"acoustic_electronic", Num(0)>>,
       <<"dry_wet", Num(7)>>, <<"bpm", Num(bpm)>> >>

Year1999 == <<"1", "9", "9", "9">>

Original == SongDict(<<"A">>, <<"X">>, <<"M">>, Year1999, 1, 120)

RecordNames ==
    {"original", "other_song", "no_artist", "no_album", "year_month", "no_comment"}

\* original: a record like the fixture's.
\* other_song: another song and album of the same artist.
\* no_artist, no_album: the original without that key.
\* year_month: the original with a date of the shape YYYY-MM.
\* no_comment: the original without its comment tag and with a "year" tag,
\*   which sorts after "title" in the metadata.
\* long: the original with the extra keys author, composer, isrc and lyrics,
\*   where the fixture long_song_dict has them.
\* no_title, no_date: the original without that key.
\* numeric_title: the original with a number (an int) as its title.
\* year_month_day, hello_date: the original with a date of the shape
\*   YYYY-MM-DD, and with a date that is no date.
\* same_album: another song of another artist on the original's album.
\* same_song: the original song on another album.
\* other_happy, other_sad: the original with another value in one
\*   fingerprint column.
\* remix: the original's title, happy_non_happy and sad_non_sad with another
\*   bpm, on another album.
\* date_first: the original with its date key in front of its album key.
\* title_last: the original with its title key behind its other keys.
\* moods_swapped: the original with its sad_non_sad key in front of its
\*   happy_non_happy key.
Record(name) ==
    CASE name = "original" -> Original
      [] name = "other_song" -> SongDict(<<"B">>, <<"X">>, <<"N">>, Year1999, 1, 120)
      [] name = "no_artist" -> Without(Original, "artist")
      [] name = "no_album" -> Without(Original, "album")
      [] name = "year_month" -> With(Original, "date", Str(Year1999 \o <<"-", "1", "2">>))
      [] name = "no_comment" ->
            InsertAfter(Without(Original, "comment:n"), "tracknumber",
                        <<"year", Str(Year1999)>>)
      [] name = "long" ->
            InsertAfter(InsertAfter(InsertAfter(InsertAfter(Original,
                "date", <<"lyrics", Str(<<"l">>)>>),
                "date", <<"isrc", Str(<<"i">>)>>),
                "artist", <<"composer", Str(<<"X">>)>>),
                "artist", <<"author", Str(<<"X">>)>>)
      [] name = "no_title" -> Without(Original, "title")
      [] name = "numeric_title" -> With(Original, "title", Num(7))
      [] name = "no_date" -> Without(Original, "date")
      [] name = "year_month_day" ->
            With(Original, "date", Str(Year1999 \o <<"-", "1", "2", "-", "0", "3">>))
      [] name = "hello_date" -> With(Original, "date", Str(<<"H", "e", "l", "l", "o">>))
      [] name = "same_album" -> SongDict(<<"B">>, <<"Y">>, <<"M">>, Year1999, 1, 120)
      [] name = "same_song" -> SongDict(<<"A">>, <<"X">>, <<"G">>, Year1999, 1, 120)
      [] name = "other_happy" -> With(Original, "happy_non_happy", Num(3))
      [] name = "other_sad" -> With(Original, "sad_non_sad", Num(5))
      [] name = "remix" -> SongDict(<<"A">>, <<"X">>, <<"G">>, Year1999, 1, 90)
      [] name = "date_first" ->
            <<<<"date", Str(Year1999)>>>> \o Without(Original, "date")
      [] name = "moods_swapped" ->
            InsertAfter(Without(Original, "sad_non_sad"), "aggressive_non_aggressive",
                        <<"sad_non_sad", Num(2)>>)
      [] name = "title_last" ->
            Without(Original, "title") \o <<<<"title", Str(<<"A">>)>>>>

\* A valid song record: the keys of the fixture, in the fixture's order, with
\* a title, an artist, an album and a date that is a bare year.
ValidRecords == {"original", "other_song"}

AllTables == <<"album", "album_artist", "artist", "song", "song_album", "song_artist">>

TableLists == {AllTables, <<"song">>, <<"artist">>}

\* The records each method is called with: for each method, the records on
\* which it behaves differently (add_song reads neither artist, album nor
\* date, add_artist reads only artist, add_album only album and date).
SongInputs == {"original", "other_song", "no_comment"}
AlbumInputs == {"original", "other_song", "no_album", "year_month"}
ArtistInputs == {"original", "no_artist"}
DataInputs == RecordNames

\* The defective records, with the original among them: for each method the
\* records that lack a key it reads, carry keys it does not know, or have a
\* date that is not a bare year.
FaultySongInputs == {"original", "long", "no_title", "numeric_title", "moods_swapped"}
FaultyAlbumInputs ==
    {"original", "year_month", "year_month_day", "no_album", "no_date", "hello_date"}
FaultyArtistInputs == {"original", "no_artist"}
FaultyDataInputs == {"original", "long", "no_artist"}

\* The records of the row tests: the four of
\* test_same_x_will_not_increase_x_table_but_x_y_table (other_song is its
\* same_artist_data) and the variations of the original's song columns.
RowRecords ==
    {"original", "other_song", "same_album", "same_song",
     "other_happy", "other_sad", "remix"}

\* The calls of row_tester: <<same_x, y, changed_data>>.  The first three are
\* the test's; in the last the two records are the same song, not two.
Scenarios ==
    {<<"artist", "song", "other_song">>, <<"album", "song", "same_album">>,
     <<"song", "album", "same_song">>, <<"artist", "song", "other_happy">>,
     <<"artist", "song", "other_sad">>, <<"song", "album", "remix">>,
     <<"artist", "song", "same_song">>}

\* The records of the lookups: the original, another song, and the original
\* with its keys in another order.
LookupRecords == {"original", "other_song", "date_first", "title_last"}

\* The strings of test_correct_date_format: six it expects None for, three it
\* expects a date for.
IncorrectDateFormats ==
    {Year1999 \o <<"-", "1", "3", "-", "0", "1">>,
     Year1999 \o <<"-", "1", "2", "-", "3", "2">>,
     Year1999 \o <<"-", "1", "3">>,
     <<"1", "2", "3", "4", "5">>, <<"1", "2", "3">>, <<"H", "e", "l", "l", "o">>}

CorrectDateFormats ==
    {Year1999 \o <<"-", "1", "2", "-", "0", "3">>, Year1999 \o <<"-", "1", "2">>, Year1999}

----------------------------------------------------------------------------
(* tests/test_database.py: row_tester *)

\* The upsert of the table t.
Upsert(db, up, t, rec) ==
    CASE t = "song" -> add_song(db, up, rec)
      [] t = "album" -> add_album(db, up, rec)
      [] t = "artist" -> add_artist(db, up, rec)

RECURSIVE Upserts(_, _, _, _)
\* The upserts steps[1], steps[2], ... made in sequence: the databases they
\* can leave, each with the values returned so far.  An exception ends the
\* sequence.
Upserts(db, up, steps, rets) ==
    IF Len(steps) = 0 \/ (Len(rets) > 0 /\ rets[Len(rets)] = Raised)
    THEN {[db |-> db, rets |-> rets]}
    ELSE UNION {Upserts(o.db, up, Tail(steps), Append(rets, o.ret)) :
                o \in Upsert(db, up, Head(steps)[1], Head(steps)[2])}

\* row_tester(same_x, y, changed_data, original_data, ...): the y upserts of
\* the two records, then the same_x upserts, the four assertions on the ids
\* and the row counts, the two links and the assertion on the relation
\* table's row count.  ids are <<first_y_id, second_y_id, first_x_id,
\* second_x_id>>; a failing assertion raises.
row_tester(db, up, same_x, y, changed_data, original_data) ==
    LET table_name == IF y = "song" THEN "song_" \o same_x ELSE "song_" \o y
        steps == <<<<y, original_data>>, <<y, changed_data>>,
                   <<same_x, original_data>>, <<same_x, changed_data>>>>
    IN UNION {
         IF \/ Len(u.rets) < 4
            \/ u.rets[4] = Raised
            \/ u.rets[1] = u.rets[2]
            \/ u.rets[3] # u.rets[4]
            \/ Cardinality(u.db.rows[y]) # 2
            \/ Cardinality(u.db.rows[same_x]) # 1
         THEN {[db |-> u.db, ret |-> Raised, ids |-> u.rets, rels |-> <<>>]}
         ELSE UNION {
           IF r1.ret = Raised
           THEN {[db |-> r1.db, ret |-> Raised, ids |-> u.rets, rels |-> <<r1.ret>>]}
           ELSE {[db |-> r2.db,
                  ret |-> IF r2.ret = Raised \/ Cardinality(r2.db.rows[table_name]) # 2
                          THEN Raised ELSE None,
                  ids |-> u.rets, rels |-> <<r1.ret, r2.ret>>] :
                 r2 \in add_relation(r1.db, up, table_name, y, u.rets[2],
                                     same_x, u.rets[4])} :
           r1 \in add_relation(u.db, up, table_name, y, u.rets[1], same_x, u.rets[3])} :
         u \in Upserts(db, up, steps, <<>>)}

----------------------------------------------------------------------------
(* The serial program: one call of the interface at a time *)

Writers == {"w1", "w2"}

\* A writer that has not called yet.  pc is "idle", then "checked" once the
\* existence check of its call has found nothing, then "done"; missed says
\* that the check found nothing.
Idle == [pc |-> "idle", op |-> "none", arg |-> <<>>, ret |-> None, missed |-> FALSE]

Counts(rs) == [t \in TableNames |-> Cardinality(rs[t])]

NoCall ==
    [op |-> "none", arg |-> <<>>, up |-> TRUE, ret |-> None, rep |-> FALSE,
     pret |-> None, pre |-> Counts([t \in TableNames |-> {}]),
     pre0 |-> Counts([t \in TableNames |-> {}]), ids |-> <<>>, rels |-> <<>>]

\* The database of a new deployment (no tables), or of one whose tables
\* create_tables has made.
Init ==
    /\ exists \in {{}, TableNames}
    /\ fks = IF exists = {} THEN {} ELSE UNION {ForeignKeysOf(t) : t \in RelTables}
    /\ rows = [t \in TableNames |-> {}]
    /\ nextId = [t \in TableNames |-> 1]
    /\ last = NoCall
    /\ calls = 0
    /\ failed = FALSE
    /\ io = NoIO
    /\ writers = [w \in Writers |-> Idle]

Commit(db) ==
    /\ exists' = db.exists
    /\ fks' = db.fks
    /\ rows' = db.rows
    /\ nextId' = db.nextId
    /\ failed' = db.failed
    /\ io' = db.io

\* The record of the call that just returned: what was called and returned,
\* the row counts before it, and, when the call before it was the same call
\* (rep), that call's return and the row counts before that call.
Log(op, arg, up, ret, ids, rels) ==
    LET rep == last.op = op /\ last.arg = arg /\ last.up = up
    IN /\ last' = [op |-> op, arg |-> arg, up |-> up, ret |-> ret, rep |-> rep,
                   pret |-> IF rep THEN last.ret ELSE None,
                   pre |-> Counts(rows),
                   pre0 |-> IF rep THEN last.pre ELSE Counts(rows),
                   ids |-> ids, rels |-> rels]
       /\ calls' = calls + 1
       /\ UNCHANGED writers

\* A call can be made: no concurrent writer is at work, and no exception has
\* left an earlier call (neither run.py nor the tests catch one, so it ends
\* the caller's run).
Serial ==
    /\ calls < MaxCalls
    /\ last.ret # Raised
    /\ \A w \in Writers : writers[w].pc = "idle"

AddSong(name, up) ==
    /\ Serial
    /\ \E o \in add_song(DB, up, Record(name)) :
          Commit(o.db) /\ Log("add_song", <<name>>, up, o.ret, <<>>, <<>>)

AddAlbum(name, up) ==
    /\ Serial
    /\ \E o \in add_album(DB, up, Record(name)) :
          Commit(o.db) /\ Log("add_album", <<name>>, up, o.ret, <<>>, <<>>)

AddArtist(name, up) ==
    /\ Serial
    /\ \E o \in add_artist(DB, up, Record(name)) :
          Commit(o.db) /\ Log("add_artist", <<name>>, up, o.ret, <<>>, <<>>)

\* The ids a caller can pass for the table t: the id of a row, or None.
IdArgs(t) == {r[1] : r \in rows[t]} \cup {None}

AddRelation(rel_table, up) ==
    /\ Serial
    /\ \E a \in IdArgs(RefTables(rel_table)[1]), b \in IdArgs(RefTables(rel_table)[2]) :
          \E o \in add_relation(DB, up, rel_table, RefTables(rel_table)[1], a,
                                RefTables(rel_table)[2], b) :
              Commit(o.db) /\ Log("add_relation", <<rel_table, a, b>>, up, o.ret, <<>>, <<>>)

\* A uuid that is the id of no row (the ids of rows count from 1).
StaleId(t) == Uuid(t, 0)

\* add_relation with at least one id that is the id of no row.
AddRelationStale(rel_table, up) ==
    /\ Serial
    /\ LET t1 == RefTables(rel_table)[1]
           t2 == RefTables(rel_table)[2]
       IN \E a \in IdArgs(t1) \cup {StaleId(t1)}, b \in IdArgs(t2) \cup {StaleId(t2)} :
             /\ a = StaleId(t1) \/ b = StaleId(t2)
             /\ \E o \in add_relation(DB, up, rel_table, t1, a, t2, b) :
                   Commit(o.db)
                   /\ Log("add_relation", <<rel_table, a, b>>, up, o.ret, <<>>, <<>>)

AddData(name, up) ==
    /\ Serial
    /\ \E o \in add_data(DB, up, Record(name)) :
          Commit(o.db) /\ Log("add_data", <<name>>, up, o.ret, o.ids, o.rels)

CreateTables(up) ==
    /\ Serial
    /\ LET o == create_tables(DB, up)
       IN Commit(o.db) /\ Log("create_tables", <<>>, up, o.ret, <<>>, <<>>)

\* create_tables with an error of the server at one of its six statements.
CreateTablesFailing(failing) ==
    /\ Serial
    /\ LET o == create_tables_with(DB, TRUE, failing)
       IN Commit(o.db) /\ Log("create_tables", <<failing>>, TRUE, o.ret, <<>>, <<>>)

DropTables(table_names, up) ==
    /\ Serial
    /\ LET o == drop_tables(DB, up, table_names)
       IN Commit(o.db) /\ Log("drop_tables", table_names, up, o.ret, <<>>, <<>>)

DeleteAllEntries(table_names, up) ==
    /\ Serial
    /\ LET o == delete_all_entries(DB, up, table_names)
       IN Commit(o.db) /\ Log("delete_all_entries", table_names, up, o.ret, <<>>, <<>>)

\* The lookup columns the upsert of the table t passes to is_row_in_table.
LookupColumnsOf(t) ==
    CASE t = "song" -> SongLookupColumns
      [] t = "album" -> AlbumLookupColumns
      [] t = "artist" -> ArtistLookupColumns

IsRowInTable(t, name, up) ==
    /\ Serial
    /\ \E o \in is_row_in_table(DB, up, t, LookupColumnsOf(t), Record(name)) :
          Commit(o.db) /\ Log("is_row_in_table", <<t, name>>, up, o.ret, <<>>, <<>>)

\* get_correct_date_format is defined in the class without a self parameter.
\* Called on an instance, as test_correct_date_format calls it, the instance
\* is bound as the first argument and the string is a second one: the call
\* raises TypeError before the body runs.  Called on the class, the string
\* is the only argument.
GetCorrectDateFormat(chars, on_instance) ==
    /\ Serial
    /\ Log("get_correct_date_format", <<chars, on_instance>>, TRUE,
           IF on_instance THEN Raised ELSE get_correct_date_format(Str(chars)),
           <<>>, <<>>)
    /\ UNCHANGED <<exists, fks, rows, nextId, failed, io>>

\* One run of row_tester, on the records the test passes to it.
RowTester(same_x, y, changed, up) ==
    /\ Serial
    /\ \E o \in row_tester(DB, up, same_x, y, Record(changed), Record("original")) :
          Commit(o.db) /\ Log("row_tester", <<same_x, y, changed>>, up, o.ret, o.ids, o.rels)

Next ==
    \/ \E name \in SongInputs, up \in BOOLEAN : AddSong(name, up)
    \/ \E name \in AlbumInputs, up \in BOOLEAN : AddAlbum(name, up)
    \/ \E name \in ArtistInputs, up \in BOOLEAN : AddArtist(name, up)
    \/ \E rel_table \in RelTables, up \in BOOLEAN : AddRelation(rel_table, up)
    \/ \E name \in DataInputs, up \in BOOLEAN : AddData(name, up)
    \/ \E up \in BOOLEAN : CreateTables(up)
    \/ \E table_names \in TableLists, up \in BOOLEAN : DropTables(table_names, up)
    \/ \E table_names \in TableLists, up \in BOOLEAN : DeleteAllEntries(table_names, up)

Spec == Init /\ [][Next]_vars

----------------------------------------------------------------------------
(* Two concurrent writers.  A writer makes one call; the existence check   *)
(* and the insert of the call are separate transactions, each on its own   *)
(* connection, so the other writer's steps can fall between them.          *)

EmptyDB ==
    [exists |-> TableNames, fks |-> UNION {ForeignKeysOf(t) : t \in RelTables},
     rows |-> [t \in TableNames |-> {}], nextId |-> [t \in TableNames |-> 1],
     failed |-> FALSE, io |-> NoIO]

\* The database after create_tables() and the three upserts of the original
\* record, as row_tester makes them before it links: a song, an album and an
\* artist with no relation between them.
SeededDB ==
    LET s == CHOOSE o \in add_song(EmptyDB, TRUE, Original) : TRUE
        al == CHOOSE o \in add_album(s.db, TRUE, Original) : TRUE
        ar == CHOOSE o \in add_artist(al.db, TRUE, Original) : TRUE
    IN [ar.db EXCEPT !.io = NoIO]

\* The database of a deployment before create_tables.
NoTablesDB == [EmptyDB EXCEPT !.exists = {}, !.fks = {}]

\* The database after create_tables(), drop_tables(["song"]) and
\* create_tables() again: the song table is new and empty, the relation
\* tables are the old ones.
RebuiltDB ==
    LET dropped == drop_tables(EmptyDB, TRUE, <<"song">>)
    IN [create_tables(dropped.db, TRUE).db EXCEPT !.io = NoIO, !.failed = FALSE]

InitConc ==
    /\ \E db \in {EmptyDB, SeededDB} :
          /\ exists = db.exists
          /\ fks = db.fks
          /\ rows = db.rows
          /\ nextId = db.nextId
    /\ last = NoCall
    /\ calls = 0
    /\ failed = FALSE
    /\ io = NoIO
    /\ writers = [w \in Writers |-> Idle]

\* The writer w has run the existence check of its call, with the outcome l.
Checked(w, op, arg, l) ==
    /\ Commit(l.db)
    /\ writers' = [writers EXCEPT ![w] =
                      [pc |-> IF l.ret = None THEN "checked" ELSE "done",
                       op |-> op, arg |-> arg, ret |-> l.ret,
                       missed |-> l.ret = None]]
    /\ UNCHANGED <<last, calls>>

\* The writer w has run the rest of its call, with the outcome o.
Inserted(w, o) ==
    /\ Commit(o.db)
    /\ writers' = [writers EXCEPT ![w].pc = "done", ![w].ret = o.ret]
    /\ UNCHANGED <<last, calls>>

SongCheck(w, name) ==
    /\ writers[w].pc = "idle"
    /\ \E l \in is_row_in_table(DB, TRUE, "song", SongLookupColumns, Record(name)) :
          Checked(w, "add_song", <<name>>, l)

SongInsert(w) ==
    /\ writers[w].pc = "checked" /\ writers[w].op = "add_song"
    /\ Inserted(w, song_insert(DB, TRUE, Record(writers[w].arg[1])))

AlbumCheck(w, name) ==
    /\ writers[w].pc = "idle"
    /\ \E l \in is_row_in_table(DB, TRUE, "album", AlbumLookupColumns, Record(name)) :
          Checked(w, "add_album", <<name>>, l)

AlbumInsert(w) ==
    /\ writers[w].pc = "checked" /\ writers[w].op = "add_album"
    /\ Inserted(w, album_insert(DB, TRUE, Record(writers[w].arg[1])))

ArtistCheck(w, name) ==
    /\ writers[w].pc = "idle"
    /\ \E l \in is_row_in_table(DB, TRUE, "artist", ArtistLookupColumns, Record(name)) :
          Checked(w, "add_artist", <<name>>, l)

ArtistInsert(w) ==
    /\ writers[w].pc = "checked" /\ writers[w].op = "add_artist"
    /\ Inserted(w, artist_insert(DB, TRUE, Record(writers[w].arg[1])))

RelationCheck(w, rel_table) ==
    /\ writers[w].pc = "idle"
    /\ \E a \in IdArgs(RefTables(rel_table)[1]), b \in IdArgs(RefTables(rel_table)[2]) :
          \E l \in is_relation_in_table(DB, TRUE, rel_table, RefTables(rel_table)[1], a,
                                        RefTables(rel_table)[2], b) :
              Checked(w, "add_relation", <<rel_table, a, b>>, l)

RelationInsert(w) ==
    /\ writers[w].pc = "checked" /\ writers[w].op = "add_relation"
    /\ LET rel_table == writers[w].arg[1]
       IN Inserted(w, relation_insert(DB, rel_table,
                                      RefTables(rel_table)[1], writers[w].arg[2],
                                      RefTables(rel_table)[2], writers[w].arg[3]))

NextConc ==
    \/ \E w \in Writers, name \in SongInputs : SongCheck(w, name)
    \/ \E w \in Writers : SongInsert(w)
    \/ \E w \in Writers, name \in AlbumInputs : AlbumCheck(w, name)
    \/ \E w \in Writers : AlbumInsert(w)
    \/ \E w \in Writers, name \in ArtistInputs : ArtistCheck(w, name)
    \/ \E w \in Writers : ArtistInsert(w)
    \/ \E w \in Writers, rel_table \in RelTables : RelationCheck(w, rel_table)
    \/ \E w \in Writers : RelationInsert(w)

SpecConc == InitConc /\ [][NextConc]_vars

InitSeeded ==
    /\ exists = SeededDB.exists
    /\ fks = SeededDB.fks
    /\ rows = SeededDB.rows
    /\ nextId = SeededDB.nextId
    /\ last = [NoCall EXCEPT !.pre = Counts(SeededDB.rows), !.pre0 = Counts(SeededDB.rows)]
    /\ calls = 0
    /\ failed = FALSE
    /\ io = NoIO
    /\ writers = [w \in Writers |-> Idle]

\* The serial program on a database that already holds unlinked rows.
SpecSeeded == InitSeeded /\ [][Next]_vars

InitRows ==
    /\ exists = EmptyDB.exists
    /\ fks = EmptyDB.fks
    /\ rows = EmptyDB.rows
    /\ nextId = EmptyDB.nextId
    /\ last = NoCall
    /\ calls = 0
    /\ failed = FALSE
    /\ io = NoIO
    /\ writers = [w \in Writers |-> Idle]

\* The calls of the row tests, on the tables create_and_clean_database made
\* and with the database reachable.
NextRows ==
    \/ \E name \in RowRecords : calls < MaxRowCalls /\ AddSong(name, TRUE)
    \/ \E name \in RowRecords : calls < MaxRowCalls /\ AddAlbum(name, TRUE)
    \/ \E name \in RowRecords : calls < MaxRowCalls /\ AddArtist(name, TRUE)
    \/ \E rel_table \in RelTables : calls < MaxRowCalls /\ AddRelation(rel_table, TRUE)
    \/ \E name \in RowRecords : calls < MaxRowCalls /\ AddData(name, TRUE)
    \/ \E sc \in Scenarios : calls < MaxRowCalls /\ RowTester(sc[1], sc[2], sc[3], TRUE)
    \/ calls < MaxRowCalls /\ DeleteAllEntries(AllTables, TRUE)

SpecRows == InitRows /\ [][NextRows]_vars

InitFaulty ==
    /\ \E db \in {EmptyDB, SeededDB} :
          /\ exists = db.exists
          /\ fks = db.fks
          /\ rows = db.rows
          /\ nextId = db.nextId
          /\ last = [NoCall EXCEPT !.pre = Counts(db.rows), !.pre0 = Counts(db.rows)]
    /\ calls = 0
    /\ failed = FALSE
    /\ io = NoIO
    /\ writers = [w \in Writers |-> Idle]

\* Calls with defective records and ids, with the database reachable.
NextFaulty ==
    \/ \E name \in FaultySongInputs : calls < MaxFaultyCalls /\ AddSong(name, TRUE)
    \/ \E name \in FaultyAlbumInputs : calls < MaxFaultyCalls /\ AddAlbum(name, TRUE)
    \/ \E name \in FaultyArtistInputs : calls < MaxFaultyCalls /\ AddArtist(name, TRUE)
    \/ \E rel_table \in RelTables : calls < MaxFaultyCalls /\ AddRelation(rel_table, TRUE)
    \/ \E rel_table \in RelTables :
          calls < MaxFaultyCalls /\ AddRelationStale(rel_table, TRUE)
    \/ \E name \in FaultyDataInputs : calls < MaxFaultyCalls /\ AddData(name, TRUE)
    \/ \E table_names \in {<<"song">>, AllTables} :
          calls < MaxFaultyCalls /\ DropTables(table_names, TRUE)

SpecFaulty == InitFaulty /\ [][NextFaulty]_vars

\* The lookup and the date conversion called on their own, between calls of
\* add_data and delete_all_entries, on the tables create_and_clean_database
\* made.
NextLookups ==
    \/ \E name \in LookupRecords : calls < MaxLookupCalls /\ AddData(name, TRUE)
    \/ \E t \in DimTables, name \in LookupRecords, up \in BOOLEAN :
          calls < MaxLookupCalls /\ IsRowInTable(t, name, up)
    \/ \E chars \in IncorrectDateFormats \cup CorrectDateFormats, on_instance \in BOOLEAN :
          calls < MaxLookupCalls /\ GetCorrectDateFormat(chars, on_instance)
    \/ \E table_names \in {<<"song">>, AllTables} :
          calls < MaxLookupCalls /\ DeleteAllEntries(table_names, TRUE)

SpecLookups == InitFaulty /\ [][NextLookups]_vars

SchemaTableLists == {<<"song">>, <<"song", "artist">>, AllTables}

----------------------------------------------------------------------------
(* One writer in add_data, another in delete_all_entries.  Each existence   *)
(* check, each INSERT and each DELETE is a transaction of its own, on its   *)
(* own connection, so the steps of the two calls interleave.                *)

\* The six steps of add_data, by the table each writes.
DataSteps == <<"song", "album", "artist", "song_album", "song_artist", "album_artist">>

\* The id add_data holds for the table t after its three upserts.
IdFor(t, ids) == ids[CHOOSE i \in 1..3 : DataSteps[i] = t]

\* The existence check of the step k of add_data.
StepCheck(k, rec, ids) ==
    LET t == DataSteps[k]
    IN IF k <= 3 THEN is_row_in_table(DB, TRUE, t, LookupColumnsOf(t), rec)
       ELSE is_relation_in_table(DB, TRUE, t,
                                 RefTables(t)[1], IdFor(RefTables(t)[1], ids),
                                 RefTables(t)[2], IdFor(RefTables(t)[2], ids))

\* The insert of the step k of add_data, made when the check found nothing.
StepInsert(k, rec, ids) ==
    LET t == DataSteps[k]
    IN CASE t = "song" -> song_insert(DB, TRUE, rec)
         [] t = "album" -> album_insert(DB, TRUE, rec)
         [] t = "artist" -> artist_insert(DB, TRUE, rec)
         [] OTHER -> relation_insert(DB, t,
                                     RefTables(t)[1], IdFor(RefTables(t)[1], ids),
                                     RefTables(t)[2], IdFor(RefTables(t)[2], ids))

\* The writer in add_data: at the check of its step, at the insert of its
\* step, "done" after the sixth step, "raised" when an exception has left
\* the call.  ids are the returns of its upserts, rels those of its links.
Ingesting(name) ==
    [pc |-> "check", op |-> "add_data", arg |-> <<name>>, step |-> 1,
     ids |-> <<>>, rels |-> <<>>]

\* The writer in delete_all_entries: arg are the tables it has yet to empty.
Deleting(table_names) ==
    [pc |-> "deleting", op |-> "delete_all_entries", arg |-> table_names]

\* The step of the writer wr has returned v.
Returned(wr, v) ==
    IF v = Raised THEN [wr EXCEPT !.pc = "raised"]
    ELSE [wr EXCEPT !.pc = IF wr.step = Len(DataSteps) THEN "done" ELSE "check",
                    !.step = @ + 1,
                    !.ids = IF wr.step <= 3 THEN Append(@, v) ELSE @,
                    !.rels = IF wr.step > 3 THEN Append(@, v) ELSE @]

IngestCheck(w) ==
    /\ writers[w].op = "add_data" /\ writers[w].pc = "check"
    /\ \E l \in StepCheck(writers[w].step, Record(writers[w].arg[1]), writers[w].ids) :
          /\ Commit(l.db)
          /\ writers' = [writers EXCEPT ![w] =
                            IF l.ret = None THEN [@ EXCEPT !.pc = "insert"]
                            ELSE Returned(@, l.ret)]
    /\ UNCHANGED <<last, calls>>

IngestInsert(w) ==
    /\ writers[w].op = "add_data" /\ writers[w].pc = "insert"
    /\ LET o == StepInsert(writers[w].step, Record(writers[w].arg[1]), writers[w].ids)
       IN /\ Commit(o.db)
          /\ writers' = [writers EXCEPT ![w] = Returned(@, o.ret)]
    /\ UNCHANGED <<last, calls>>

DeleteStep(w) ==
    /\ writers[w].op = "delete_all_entries" /\ writers[w].pc = "deleting"
    /\ Commit(delete_all_entries_in_table(DB, Head(writers[w].arg)))
    /\ writers' = [writers EXCEPT ![w].arg = Tail(@),
                                  ![w].pc = IF Len(writers[w].arg) = 1 THEN "done"
                                            ELSE "deleting"]
    /\ UNCHANGED <<last, calls>>

\* The lists of dimension tables the deleting writer is called with.
DimTableLists ==
    {<<"song">>, <<"artist">>, <<"album">>,
     <<"song", "artist", "album">>, <<"album", "artist", "song">>}

InitIngest ==
    /\ \E db \in {EmptyDB, SeededDB} :
          /\ exists = db.exists
          /\ fks = db.fks
          /\ rows = db.rows
          /\ nextId = db.nextId
    /\ last = NoCall
    /\ calls = 0
    /\ failed = FALSE
    /\ io = NoIO
    /\ \E name \in ValidRecords, table_names \in DimTableLists :
          writers = [w \in Writers |->
                        IF w = "w1" THEN Ingesting(name) ELSE Deleting(table_names)]

NextIngest ==
    \/ \E w \in Writers : IngestCheck(w)
    \/ \E w \in Writers : IngestInsert(w)
    \/ \E w \in Writers : DeleteStep(w)

SpecIngest == InitIngest /\ [][NextIngest]_vars

InitSchema ==
    /\ \E db \in {NoTablesDB, SeededDB, RebuiltDB} :
          /\ exists = db.exists
          /\ fks = db.fks
          /\ rows = db.rows
          /\ nextId = db.nextId
          /\ last = [NoCall EXCEPT !.pre = Counts(db.rows), !.pre0 = Counts(db.rows)]
    /\ calls = 0
    /\ failed = FALSE
    /\ io = NoIO
    /\ writers = [w \in Writers |-> Idle]

\* The calls that make, reset and empty the tables, between calls of
\* add_data, the upserts and add_relation, with the database reachable.
NextSchema ==
    \/ calls < MaxSchemaCalls /\ CreateTables(TRUE)
    \/ \E failing \in 1..Len(CreateOrder) :
          calls < MaxSchemaCalls /\ CreateTablesFailing(failing)
    \/ \E table_names \in SchemaTableLists :
          calls < MaxSchemaCalls /\ DropTables(table_names, TRUE)
    \/ \E table_names \in SchemaTableLists :
          calls < MaxSchemaCalls /\ DeleteAllEntries(table_names, TRUE)
    \/ \E name \in ValidRecords : calls < MaxSchemaCalls /\ AddData(name, TRUE)
    \/ \E name \in ValidRecords : calls < MaxSchemaCalls /\ AddSong(name, TRUE)
    \/ \E name \in ValidRecords : calls < MaxSchemaCalls /\ AddAlbum(name, TRUE)
    \/ \E name \in ValidRecords : calls < MaxSchemaCalls /\ AddArtist(name, TRUE)
    \/ \E rel_table \in RelTables : calls < MaxSchemaCalls /\ AddRelation(rel_table, TRUE)

SpecSchema == InitSchema /\ [][NextSchema]_vars

----------------------------------------------------------------------------
(* Properties *)

\* The natural key of a row of a dimension table.
NaturalKey(t, r) ==
    CASE t = "song" -> <<Cell(t, r, "title"), Cell(t, r, "happy_non_happy"),
                         Cell(t, r, "sad_non_sad")>>
      [] t = "artist" -> <<Cell(t, r, "name")>>
      [] t = "album" -> <<Cell(t, r, "title"), Cell(t, r, "date")>>

\* The pair of foreign ids of a row of a relation table.
ForeignPair(t, r) == <<Cell(t, r, RefColumn(RefTables(t)[1])),
                       Cell(t, r, RefColumn(RefTables(t)[2]))>>

IsId(v) == Tag(v) = "uuid"

\* The last call was made with the database reachable and repeated the call
\* before it: the same method with the same arguments, twice in sequence.
Twice(op) == last.op = op /\ last.rep /\ last.up

RowsWithPair(t, a, b) == {r \in rows[t] : ForeignPair(t, r) = <<a, b>>}

\* C3: for a relation table T that exists and ids a, b of existing rows of
\* the two tables it relates, add_relation(T, ..., a, ..., b) called twice in
\* sequence returns the same relation identity both times and T holds
\* exactly one row with the pair (a, b).
C3_AddRelationTwice ==
    (/\ Twice("add_relation")
     /\ last.arg[1] \in exists
     /\ \E x \in rows[RefTables(last.arg[1])[1]] : x[1] = last.arg[2]
     /\ \E x \in rows[RefTables(last.arg[1])[2]] : x[1] = last.arg[3]) =>
        /\ IsId(last.ret)
        /\ last.ret = last.pret
        /\ Cardinality(RowsWithPair(last.arg[1], last.arg[2], last.arg[3])) = 1
        /\ \E r \in RowsWithPair(last.arg[1], last.arg[2], last.arg[3]) : r[1] = last.ret

\* The first of the two calls inserted the row, the second found it.
C3_Witness ==
    /\ Twice("add_relation")
    /\ IsId(last.arg[2]) /\ IsId(last.arg[3])
    /\ last.pre0[last.arg[1]] = 0
    /\ last.pre[last.arg[1]] = 1
    /\ Cardinality(rows[last.arg[1]]) = 1
    /\ \E r \in RowsWithPair(last.arg[1], last.arg[2], last.arg[3]) : r[1] = last.ret

\* No two rows of the table t have the same key.
NoTwoRows(t, Key(_, _)) ==
    \A r1 \in rows[t], r2 \in rows[t] : Key(t, r1) = Key(t, r2) => r1 = r2

\* C4: under serialized access with no failing storage operation, no two rows
\* of a dimension table share the same natural key.
C4_NoDuplicateNaturalKey ==
    ~failed => \A t \in DimTables : NoTwoRows(t, NaturalKey)

\* C5: under serialized access, no two rows of a relation table share the
\* same (first_id, second_id) pair.
C5_NoDuplicatePair == \A t \in RelTables : NoTwoRows(t, ForeignPair)

\* Two writers whose calls were the same upsert, both existence checks
\* finding nothing, and both calls returned.
Raced(w1, w2, op) ==
    /\ w1 # w2
    /\ writers[w1].pc = "done" /\ writers[w2].pc = "done"
    /\ writers[w1].op = op /\ writers[w2].op = op
    /\ writers[w1].arg = writers[w2].arg
    /\ writers[w1].missed /\ writers[w2].missed

DimTableOf(op) ==
    CASE op = "add_song" -> "song"
      [] op = "add_album" -> "album"
      [] op = "add_artist" -> "artist"

\* C6: when two concurrent writers upsert the same valid record into a
\* dimension table and both existence checks run before either insert
\* commits, the two calls return different identities and the table holds
\* two rows with the same natural key.
C6_DimensionRace ==
    \A w1 \in Writers, w2 \in Writers :
        \A op \in {"add_song", "add_album", "add_artist"} :
            (Raced(w1, w2, op) /\ writers[w1].arg[1] \in ValidRecords) =>
                /\ IsId(writers[w1].ret) /\ IsId(writers[w2].ret)
                /\ writers[w1].ret # writers[w2].ret
                /\ \E r1 \in rows[DimTableOf(op)], r2 \in rows[DimTableOf(op)] :
                      /\ r1[1] = writers[w1].ret
                      /\ r2[1] = writers[w2].ret
                      /\ NaturalKey(DimTableOf(op), r1) = NaturalKey(DimTableOf(op), r2)

C6_Witness ==
    \E w1 \in Writers, w2 \in Writers :
        /\ Raced(w1, w2, "add_artist")
        /\ writers[w1].arg[1] \in ValidRecords
        /\ writers[w1].ret # writers[w2].ret
        /\ Cardinality({r \in rows["artist"] :
                          NaturalKey("artist", r) = <<Get(Original, "artist")>>}) = 2

\* C7: when two concurrent writers link the same pair of existing rows in
\* the same relation table and both existence checks run before either
\* insert commits, the table holds two rows with that pair.
C7_RelationRace ==
    \A w1 \in Writers, w2 \in Writers :
        (/\ Raced(w1, w2, "add_relation")
         /\ IsId(writers[w1].arg[2]) /\ IsId(writers[w1].arg[3])) =>
            /\ IsId(writers[w1].ret) /\ IsId(writers[w2].ret)
            /\ writers[w1].ret # writers[w2].ret
            /\ Cardinality(RowsWithPair(writers[w1].arg[1], writers[w1].arg[2],
                                        writers[w1].arg[3])) >= 2

C7_Witness ==
    \E w1 \in Writers, w2 \in Writers :
        /\ Raced(w1, w2, "add_relation")
        /\ IsId(writers[w1].arg[2]) /\ IsId(writers[w1].arg[3])
        /\ Cardinality(RowsWithPair(writers[w1].arg[1], writers[w1].arg[2],
                                    writers[w1].arg[3])) = 2

\* C8: both foreign ids of every relation row are non-null and are the ids of
\* rows of the tables the relation table relates.
C8_ReferentialIntegrity ==
    \A t \in RelTables : \A r \in rows[t] : \A i \in {1, 2} :
        /\ IsId(ForeignPair(t, r)[i])
        /\ \E x \in rows[RefTables(t)[i]] : x[1] = ForeignPair(t, r)[i]

UpsertsAndLinks == {"add_song", "add_artist", "add_album", "add_relation", "add_data"}

\* C9: no call of add_song, add_artist, add_album, add_relation or add_data
\* raises an exception to its caller.
C9_NothingRaised == last.op \in UpsertsAndLinks => last.ret # Raised

\* The relation tables that hold the id of the i-th upsert of add_data
\* (song, album, artist).
RelTablesOf(i) ==
    CASE i = 1 -> {"song_album", "song_artist"}
      [] i = 2 -> {"song_album", "album_artist"}
      [] i = 3 -> {"song_artist", "album_artist"}

\* C10: when an upsert of add_data returns None, the call leaves the relation
\* tables that would reference the missing identity as they were.
C10_NoLinkWithoutIdentity ==
    (last.op = "add_data" /\ Len(last.ids) = 3) =>
        \A i \in 1..3 :
            last.ids[i] = None =>
                \A t \in RelTablesOf(i) : Cardinality(rows[t]) = last.pre[t]

\* The natural key a record has for the table t: the values its upsert looks
\* the row up by.
RecordKey(t, rec) ==
    CASE t = "song" -> <<Get(rec, "title"), Get(rec, "happy_non_happy"),
                         Get(rec, "sad_non_sad")>>
      [] t = "artist" -> <<Get(rec, "artist")>>
      [] t = "album" -> <<Get(rec, "album"), YearDate(Get(rec, "date"))>>

\* The relation table between the tables x and y.
RelTableOf(x, y) == CHOOSE t \in RelTables : {RefTables(t)[1], RefTables(t)[2]} = {x, y}

\* The last call was a row_tester whose two records share the natural key of
\* same_x and differ in the natural key of y.
SameXOtherY ==
    /\ last.op = "row_tester" /\ last.up
    /\ RecordKey(last.arg[1], Record(last.arg[3])) = RecordKey(last.arg[1], Original)
    /\ RecordKey(last.arg[2], Record(last.arg[3])) # RecordKey(last.arg[2], Original)

\* C12: for two records that share the natural key of X and differ in the
\* natural key of Y, with the six tables in place: the two X upserts return
\* the same identity and the two Y upserts different identities; and from
\* empty tables the X table then holds 1 row, the Y table 2 rows, and after
\* linking each Y to X the X-Y relation table holds exactly 2 rows.
C12_SameXOtherY ==
    (SameXOtherY /\ exists = TableNames) =>
        /\ Len(last.ids) = 4
        /\ \A i \in 1..4 : IsId(last.ids[i])
        /\ last.ids[3] = last.ids[4]
        /\ last.ids[1] # last.ids[2]
        /\ (\A t \in TableNames : last.pre[t] = 0) =>
               /\ last.ret = None
               /\ Cardinality(rows[last.arg[1]]) = 1
               /\ Cardinality(rows[last.arg[2]]) = 2
               /\ Cardinality(rows[RelTableOf(last.arg[1], last.arg[2])]) = 2
               /\ Len(last.rels) = 2 /\ IsId(last.rels[1]) /\ IsId(last.rels[2])
               /\ last.rels[1] # last.rels[2]

C12_Witness ==
    /\ SameXOtherY /\ exists = TableNames
    /\ last.arg = <<"artist", "song", "other_song">>
    /\ \A t \in TableNames : last.pre[t] = 0
    /\ Cardinality(rows["artist"]) = 1
    /\ Cardinality(rows["song"]) = 2
    /\ Cardinality(rows["song_artist"]) = 2

\* C13: two valid song records that differ in at least one of title,
\* happy_non_happy and sad_non_sad, upserted in sequence into the song table,
\* yield two distinct identities, each the id of a song row with its
\* record's values in the three columns.
C13_OtherFingerprintOtherSong ==
    (/\ last.op = "row_tester" /\ last.up /\ last.arg[2] = "song"
     /\ RecordKey("song", Record(last.arg[3])) # RecordKey("song", Original)
     /\ "song" \in exists) =>
        /\ Len(last.ids) >= 2
        /\ IsId(last.ids[1]) /\ IsId(last.ids[2])
        /\ last.ids[1] # last.ids[2]
        /\ \E r1 \in rows["song"], r2 \in rows["song"] :
              /\ r1 # r2
              /\ r1[1] = last.ids[1] /\ NaturalKey("song", r1) = RecordKey("song", Original)
              /\ r2[1] = last.ids[2]
              /\ NaturalKey("song", r2) = RecordKey("song", Record(last.arg[3]))

\* The two records have the same title and differ in happy_non_happy only.
C13_Witness ==
    /\ last.op = "row_tester" /\ last.up
    /\ last.arg = <<"artist", "song", "other_happy">>
    /\ Len(last.ids) = 4 /\ last.ids[1] # last.ids[2]
    /\ Cardinality({Cell("song", r, "happy_non_happy") : r \in rows["song"]}) = 2
    /\ Cardinality({Cell("song", r, "title") : r \in rows["song"]}) = 1

\* The song rows with the lookup values of the last call's record that were
\* in the table before the call: all of them when the call inserted nothing,
\* all but the returned one when it inserted.
OldSongRows ==
    {r \in rows["song"] :
        /\ NaturalKey("song", r) = RecordKey("song", Record(last.arg[1]))
        /\ (Cardinality(rows["song"]) = last.pre["song"] \/ r[1] # last.ret)}

\* C14: add_song of a record whose title, happy_non_happy and sad_non_sad
\* are those of a row of the song table returns that row's identity and
\* inserts no row, whatever the record's other feature values.
C14_SameFingerprintSameSong ==
    (last.op = "add_song" /\ last.up /\ last.arg[1] \in RowRecords /\ OldSongRows # {}) =>
        /\ Cardinality(rows["song"]) = last.pre["song"]
        /\ \E r \in OldSongRows : r[1] = last.ret

\* The record's bpm is not the row's.
C14_Witness ==
    /\ last.op = "add_song" /\ last.up /\ last.arg[1] = "remix"
    /\ Cardinality(rows["song"]) = last.pre["song"]
    /\ \E r \in OldSongRows :
          /\ r[1] = last.ret
          /\ Cell("song", r, "bpm") # Get(Record("remix"), "bpm")

\* C15: a step that is a call of add_song, add_artist, add_album,
\* add_relation or add_data (or of row_tester, which makes such calls) leaves
\* every row of the dimension tables in its table with all its values.
C15_RowsNeverChange ==
    [][last'.op \in UpsertsAndLinks \cup {"row_tester"} =>
          \A t \in DimTables : rows[t] \subseteq rows'[t]]_vars

\* add_data of a record with the natural key of a song row and another bpm
\* has returned, and the row has the bpm it was inserted with.
C15_Witness ==
    /\ last.op = "add_data" /\ last.arg[1] = "remix" /\ last.pre["song"] = 1
    /\ Cardinality(rows["song"]) = 1
    /\ \E r \in rows["song"] :
          /\ r[1] = last.ids[1]
          /\ Cell("song", r, "bpm") = Get(Original, "bpm")
          /\ Cell("song", r, "bpm") # Get(Record("remix"), "bpm")

\* v is the id of no row of the table t.
NoRowHas(t, v) == ~\E x \in rows[t] : x[1] = v

\* C11: add_relation called with a first_id or second_id that is None or the
\* id of no row of its table returns None and inserts no row into the
\* relation table.
C11_InvalidIdsRejected ==
    (/\ last.op = "add_relation" /\ last.up
     /\ \/ NoRowHas(RefTables(last.arg[1])[1], last.arg[2])
        \/ NoRowHas(RefTables(last.arg[1])[2], last.arg[3])) =>
        /\ last.ret = None
        /\ Cardinality(rows[last.arg[1]]) = last.pre[last.arg[1]]

\* The song row with the id id and, in each other column, the value the
\* record has for that column (the comment tag for comment, the two elements
\* of valence_arousal for valence and arousal).
ExpectedSongRow(rec, id) ==
    [i \in 1..Len(SongColumns) |->
        LET c == SongColumns[i]
        IN CASE c = "id" -> id
             [] c = "comment" -> Get(rec, "comment:n")
             [] c = "valence" -> Get(rec, "valence_arousal")[2]
             [] c = "arousal" -> Get(rec, "valence_arousal")[3]
             [] OTHER -> Get(rec, c)]

\* C16: add_song of a record that has, besides all the keys add_song knows,
\* extra keys (author, composer, isrc, lyrics) returns an identity, and the
\* song table holds the row with that identity and the record's values of
\* the song columns.
C16_ExtraKeysIgnored ==
    (last.op = "add_song" /\ last.up /\ last.arg[1] = "long" /\ "song" \in exists) =>
        /\ IsId(last.ret)
        /\ ExpectedSongRow(Record("long"), last.ret) \in rows["song"]

\* The records whose date has one of the shapes YYYY, YYYY-MM, YYYY-MM-DD.
DateShapeRecords == {"original", "year_month", "year_month_day"}

\* C17: add_album of a record whose date has one of the shapes YYYY, YYYY-MM
\* and YYYY-MM-DD returns an identity, and the album row with that identity
\* has the normalized date (a missing month or day filled with 01).
C17_DateShapesAccepted ==
    (/\ last.op = "add_album" /\ last.up /\ last.arg[1] \in DateShapeRecords
     /\ "album" \in exists) =>
        /\ IsId(last.ret)
        /\ \E r \in rows["album"] :
              /\ r[1] = last.ret
              /\ Cell("album", r, "date") =
                     get_correct_date_format(Get(Record(last.arg[1]), "date"))

\* The records add_album must refuse: no album, no date, a date that is no
\* date.
InvalidAlbumRecords == {"no_album", "no_date", "hello_date"}

\* C18: add_album of a record without an album field, without a date field
\* or with a date that cannot be parsed returns None, attempts no insert and
\* leaves the album table as it was.
C18_InvalidAlbumRefused ==
    (last.op = "add_album" /\ last.up /\ last.arg[1] \in InvalidAlbumRecords) =>
        /\ last.ret = None
        /\ ~io.inserr
        /\ Cardinality(rows["album"]) = last.pre["album"]

\* C19: add_artist of a record without an artist field, and add_album of a
\* record without an album field, without a date field or with a date that
\* cannot be parsed, return None without opening a connection to the
\* database, so with no lookup and no insert.
C19_ValidationBeforeStorage ==
    (/\ last.up
     /\ \/ last.op = "add_artist" /\ last.arg[1] = "no_artist"
        \/ last.op = "add_album" /\ last.arg[1] \in InvalidAlbumRecords) =>
        /\ last.ret = None
        /\ io.conns = 0
        /\ Counts(rows) = last.pre

\* C20: a call of add_song, add_album, add_artist or add_relation whose
\* INSERT statement fails with a database error returns None and leaves the
\* rows of every table as they were before the call.
C20_InsertFailureContained ==
    [][(/\ last'.op \in {"add_song", "add_album", "add_artist", "add_relation"}
        /\ io'.inserr) =>
           (last'.ret = None /\ rows' = rows)]_vars

\* The last call reached its INSERT statement: the statement failed, or the
\* table of the call has the row it inserted.
InsertAttempted(t) == io.inserr \/ Cardinality(rows[t]) = last.pre[t] + 1

\* The record of the last call has what the method checks between its
\* existence check and its INSERT: the song table can be read for its
\* columns, the record has an artist, the record has an album and a date.
PassesChecks ==
    CASE last.op = "add_song" -> "song" \in exists
      [] last.op = "add_artist" -> HasKey(Record(last.arg[1]), "artist")
      [] last.op = "add_album" ->
            HasKey(Record(last.arg[1]), "album") /\ HasKey(Record(last.arg[1]), "date")
      [] OTHER -> TRUE

\* The table the last call inserts into.
TargetTable == IF last.op = "add_relation" THEN last.arg[1] ELSE DimTableOf(last.op)

\* C21: when the SELECT of the existence check of add_song, add_album,
\* add_artist or add_relation fails with a database error, the error is
\* caught and counts as "no match": the call goes on to its INSERT statement
\* (given a record that passes the checks the method makes before the
\* INSERT).
C21_LookupErrorIsNoMatch ==
    (/\ last.op \in {"add_song", "add_album", "add_artist", "add_relation"}
     /\ last.up /\ io.lookerr /\ PassesChecks) =>
        InsertAttempted(TargetTable)

\* The existence check failed on the type of the title, and the INSERT
\* stored the row.
C21_Witness ==
    /\ last.op = "add_song" /\ last.arg[1] = "numeric_title"
    /\ io.lookerr /\ ~io.inserr
    /\ IsId(last.ret)
    /\ Cardinality(rows["song"]) = last.pre["song"] + 1

\* The row of the table t that equals the record on every lookup column.
EqualRows(t, rec) == {r \in rows[t] : NaturalKey(t, r) = RecordKey(t, rec)}

\* C22: is_row_in_table(t, columns, record) returns the id of a row exactly
\* when a row of t equals the record on every lookup column (album compared
\* with title, artist with name, the date as a calendar date), whatever the
\* order of the record's keys, and returns None otherwise.
C22_LookupFindsEqualRow ==
    (/\ last.op = "is_row_in_table" /\ last.up
     /\ last.arg[1] \in exists) =>
        LET found == {r[1] : r \in EqualRows(last.arg[1], Record(last.arg[2]))}
        IN IF found = {} THEN last.ret = None ELSE last.ret \in found

\* The date test_correct_date_format expects for a string it takes as correct.
ExpectedDate(chars) ==
    Date(1999, IF Len(chars) > 4 THEN 12 ELSE 1, IF Len(chars) > 7 THEN 3 ELSE 1)

\* C26: called on a connector instance, as the test calls it,
\* get_correct_date_format maps YYYY to YYYY-01-01, YYYY-MM to YYYY-MM-01 and
\* YYYY-MM-DD to that date.
C26_DateShapesConverted ==
    (/\ last.op = "get_correct_date_format"
     /\ last.arg[2]
     /\ last.arg[1] \in CorrectDateFormats) =>
        last.ret = ExpectedDate(last.arg[1])

\* C27: get_correct_date_format returns None and raises nothing for every
\* string that is no valid date of one of the three shapes, a month or day
\* out of range included.
C27_InvalidDatesGiveNone ==
    (/\ last.op = "get_correct_date_format"
     /\ last.arg[1] \in IncorrectDateFormats) =>
        last.ret = None

\* C23: after delete_all_entries on a dimension table, no row of a relation
\* table references a row the call deleted.
C23_DeleteCascades ==
    [][(last'.op = "delete_all_entries" /\ last'.up) =>
          \A i \in 1..Len(last'.arg) :
              LET t == last'.arg[i]
              IN (t \in DimTables /\ t \in exists) =>
                    \A x \in rows[t], u \in RelTables :
                        t \in {RefTables(u)[1], RefTables(u)[2]} =>
                            \A r \in rows'[u] : Cell(u, r, RefColumn(t)) # x[1]]_vars

\* C24: when a CREATE TABLE statement of create_tables fails, the batch is
\* rolled back: no table it would have created exists afterwards, the
\* database is as it was, and the call returns without raising.
C24_CreateAllOrNothing ==
    [][(last'.op = "create_tables" /\ Len(last'.arg) = 1) =>
          /\ exists' = exists
          /\ fks' = fks
          /\ rows' = rows
          /\ last'.ret = None]_vars

\* The fourth statement of create_tables has failed on a database without
\* tables: three tables were created in the transaction and none exists.
C24_Witness ==
    /\ last.op = "create_tables" /\ last.arg = <<4>>
    /\ last.ret = None /\ failed
    /\ exists = {}

\* C25: drop_tables and delete_all_entries attempt every table of the list,
\* each on a connection and in a transaction of its own, and a failure at
\* one table does not keep the later tables from being attempted: every
\* listed table is gone after drop_tables, every listed table that exists
\* is empty after delete_all_entries.
C25_EveryTableAttempted ==
    (last.op \in {"drop_tables", "delete_all_entries"} /\ last.up) =>
        /\ io.conns = Len(last.arg)
        /\ last.ret = None
        /\ \A i \in 1..Len(last.arg) :
              IF last.op = "drop_tables" THEN last.arg[i] \notin exists
              ELSE last.arg[i] \in exists => rows[last.arg[i]] = {}

\* delete_all_entries(["song", "artist"]) with the song table dropped: the
\* DELETE on song has failed and the artist table was emptied after it.
C25_Witness ==
    /\ last.op = "delete_all_entries" /\ last.arg = <<"song", "artist">>
    /\ "song" \notin exists /\ failed
    /\ last.pre["artist"] > 0 /\ rows["artist"] = {}
    /\ io.conns = 2

\* C28: no id is cached across calls: after add_song(R),
\* delete_all_entries(["song"]) and add_song(R) again, and after any other
\* calls, add_song(R) on a valid record R returns the id of a row that is in
\* the song table and has R's title and moods, never the id of a deleted row.
C28_ReturnedSongExists ==
    (/\ last.op = "add_song" /\ last.up
     /\ last.arg[1] \in ValidRecords
     /\ "song" \in exists) =>
        \E r \in rows["song"] :
            /\ r[1] = last.ret
            /\ NaturalKey("song", r) = RecordKey("song", Record(last.arg[1]))

\* add_song has inserted the second row the song table ever had into the
\* emptied table: the first row was deleted, and the id returned is the new
\* row's.
C28_Witness ==
    /\ last.op = "add_song" /\ last.up /\ last.arg[1] \in ValidRecords
    /\ last.pre["song"] = 0
    /\ last.ret = Uuid("song", 2)
    /\ {r[1] : r \in rows["song"]} = {Uuid("song", 2)}

\* C29: no call of add_song, add_artist, add_album, add_relation, add_data
\* or create_tables removes a row: every row of every table is still a row
\* of it after the call.
C29_OnlyDeleteAndDropRemove ==
    [][last'.op \in {"add_song", "add_artist", "add_album", "add_relation",
                     "add_data", "create_tables"} =>
          \A t \in TableNames : rows[t] \subseteq rows'[t]]_vars

\* create_tables has run on tables that hold rows, and add_data has added
\* rows to tables that held some.
C29_Witness ==
    /\ last.up
    /\ \/ last.op = "create_tables" /\ rows["song"] # {}
       \/ /\ last.op = "add_data" /\ last.pre["song"] = 1
          /\ Cardinality(rows["song"]) = 2 /\ Cardinality(rows["song_album"]) = 2

\* C30: add_data makes the three upserts (song, album, artist) before any
\* link and then calls add_relation three times, for song_album, song_artist
\* and album_artist in this order, each with the ids the upserts of the same
\* record returned.
C30_UpsertsThenLinks ==
    (/\ last.op = "add_data" /\ last.up
     /\ last.arg[1] \in ValidRecords
     /\ exists = TableNames) =>
        /\ Len(last.ids) = 3 /\ Len(last.rels) = 3
        /\ \A i \in 1..3 :
              LET t == <<"song", "album", "artist">>[i]
              IN \E r \in rows[t] :
                    /\ r[1] = last.ids[i]
                    /\ NaturalKey(t, r) = RecordKey(t, Record(last.arg[1]))
        /\ io.links = <<"song_album", "song_artist", "album_artist">>
        /\ \A i \in 1..3 :
              LET u == io.links[i]
                  pair == <<<<1, 2>>, <<1, 3>>, <<2, 3>>>>[i]
              IN \E r \in rows[u] :
                    /\ r[1] = last.rels[i]
                    /\ ForeignPair(u, r) = <<last.ids[pair[1]], last.ids[pair[2]]>>

\* add_data on empty tables: three rows and three links are new.
C30_Witness ==
    /\ last.op = "add_data" /\ last.up /\ last.arg[1] = "original"
    /\ \A t \in TableNames : last.pre[t] = 0 /\ Cardinality(rows[t]) = 1
    /\ last.rels = <<Uuid("song_album", 1), Uuid("song_artist", 1), Uuid("album_artist", 1)>>

\* C31: in the state after a method of DBConnector has returned, normally,
\* with None or after an error it caught, no connection or transaction the
\* method opened is still open.
C31_ConnectionsReleased ==
    last.op # "none" => io.open = 0

\* add_data on a database without its song table: the lookups and inserts
\* on song fail and are caught, and the call has opened a connection for
\* every lookup, insert and link.
C31_Witness ==
    /\ last.op = "add_data" /\ last.ret = None
    /\ io.lookerr /\ failed
    /\ io.conns > 6

\* The tables of the three upserts and of the three links of add_data, in
\* the order of the calls.
UpsertTables == <<"song", "album", "artist">>
LinkTables == <<"song_album", "song_artist", "album_artist">>

\* C32: each upsert and each link of add_data commits on its own: when a
\* later step of the call fails, raises or returns None, the rows of the
\* steps before it are in their tables after the call.
C32_StepsCommitAlone ==
    (last.op = "add_data" /\ last.up) =>
        /\ \A i \in 1..Len(last.ids) :
              IsId(last.ids[i]) => \E r \in rows[UpsertTables[i]] : r[1] = last.ids[i]
        /\ \A i \in 1..Len(last.rels) :
              IsId(last.rels[i]) => \E r \in rows[LinkTables[i]] : r[1] = last.rels[i]

\* add_data of a record without an artist: add_artist has returned None
\* after add_song and add_album inserted their rows, and the rows are there.
C32_Witness ==
    /\ last.op = "add_data" /\ last.up /\ last.arg[1] = "no_artist"
    /\ Len(last.ids) = 3 /\ last.ids[3] = None
    /\ IsId(last.ids[1]) /\ IsId(last.ids[2])
    /\ Cardinality(rows["song"]) = last.pre["song"] + 1
    /\ Cardinality(rows["album"]) = last.pre["album"] + 1

\* The song row with the id id that holds, in each other column, the
\* record's value under the key of the column's name as the column's type
\* stores it.
StoredSongRow(rec, id) ==
    [i \in 1..Len(SongColumns) |->
        IF i = 1 THEN id
        ELSE StoreParam(ColType("song", SongColumns[i]), ExpectedSongRow(rec, id)[i])]

\* The keys a record has when it has a value for every column of song.
SongKeys ==
    {"comment:n", "valence_arousal"} \cup
    ({SongColumns[i] : i \in 2..Len(SongColumns)} \ {"comment", "valence", "arousal"})

\* C33: when add_song inserts a row, each column of the row holds the
\* record's value under the key of that column's name (valence_arousal
\* expanded into valence and arousal; album, artist, date and tracknumber
\* dropped), whatever the order of the record's keys.
C33_ValuesStoredByName ==
    (/\ last.op = "add_song" /\ last.up /\ IsId(last.ret)
     /\ Cardinality(rows["song"]) = last.pre["song"] + 1
     /\ \A k \in SongKeys : HasKey(Record(last.arg[1]), k)) =>
        StoredSongRow(Record(last.arg[1]), last.ret) \in rows["song"]

\* C34: after delete_all_entries(names) has returned without a storage
\* error, every table of names holds no row, and the deletion is committed:
\* a lookup made next, on a new connection, finds no row in these tables.
C34_DeleteCommitted ==
    [][/\ (/\ last'.op = "delete_all_entries" /\ last'.up
           /\ \A i \in 1..Len(last'.arg) : last'.arg[i] \in exists) =>
              \A i \in 1..Len(last'.arg) : rows'[last'.arg[i]] = {}
       /\ (/\ last.op = "delete_all_entries" /\ last.up
           /\ \A i \in 1..Len(last.arg) : last.arg[i] \in exists
           /\ last'.op = "is_row_in_table" /\ last'.up
           /\ InSeq(last'.arg[1], last.arg)) =>
              last'.ret = None]_vars

\* delete_all_entries has emptied a song table that held rows, with no
\* storage error.
C34_Witness ==
    /\ last.op = "delete_all_entries" /\ last.up /\ ~failed
    /\ InSeq("song", last.arg)
    /\ last.pre["song"] > 0 /\ rows["song"] = {}

\* C35: create_tables creates the tables that are absent and leaves every
\* table that exists, its foreign keys and its rows as they are; a second
\* create_tables right after a first changes nothing.
C35_CreateOnlyAbsent ==
    [][(last'.op = "create_tables" /\ last'.arg = <<>> /\ last'.up) =>
          /\ exists' = TableNames
          /\ rows' = rows
          /\ {fk \in fks' : fk[1] \in exists} = fks
          /\ (last.op = "create_tables" /\ last.arg = <<>> /\ last.up) =>
                (exists' = exists /\ fks' = fks)]_vars

\* create_tables twice in sequence on tables that hold rows.
C35_Witness ==
    /\ Twice("create_tables") /\ last.arg = <<>>
    /\ rows["song"] # {} /\ rows["artist"] # {}

\* C36: while the table of an upsert or a link is dropped, every add_song,
\* add_artist, add_album (of a record with a bare-year date) and
\* add_relation returns None, raises nothing and creates no table and no
\* row; after create_tables has run again, the upserts return an identity.
C36_DroppedTablesGiveNone ==
    [][/\ (/\ last'.op \in {"add_song", "add_artist", "add_album", "add_relation"}
           /\ last'.up
           /\ (IF last'.op = "add_relation" THEN last'.arg[1]
                ELSE DimTableOf(last'.op)) \notin exists) =>
              /\ last'.ret = None
              /\ exists' = exists
              /\ rows' = rows
       /\ (/\ last.op = "create_tables" /\ last.arg = <<>> /\ last.up
           /\ last'.op \in {"add_song", "add_artist", "add_album"}
           /\ last'.up) =>
              /\ IsId(last'.ret)
              /\ \E r \in rows'[DimTableOf(last'.op)] : r[1] = last'.ret]_vars

\* add_song of the original record while the song table is dropped: the
\* lookup has failed and None was returned.
C36_Witness ==
    /\ last.op = "add_song" /\ last.arg[1] = "original" /\ last.up
    /\ "song" \notin exists
    /\ io.lookerr /\ last.ret = None

\* The natural key of the record for the table t, each value as the column
\* it is compared with stores it.
StoredKey(t, rec) ==
    LET key == RecordKey(t, rec)
        types == CASE t = "song" -> <<"text", "float", "float">>
                   [] t = "artist" -> <<"text">>
                   [] t = "album" -> <<"text", "date">>
    IN [i \in 1..Len(key) |-> StoreParam(types[i], key[i])]

\* C37: whenever add_song, add_artist, add_album or add_relation returns an
\* identity in the serial program, a row with that identity is in the
\* method's table, and its natural-key columns (for a link: its pair of
\* foreign ids) equal those of the call's input.
C37_ReturnedRowMatchesInput ==
    (/\ last.op \in {"add_song", "add_artist", "add_album", "add_relation"}
     /\ last.up /\ IsId(last.ret)
     /\ last.op # "add_relation" =>
           \A i \in 1..Len(LookupColumnsOf(TargetTable)) :
               HasKey(Record(last.arg[1]), LookupColumnsOf(TargetTable)[i])) =>
        \E r \in rows[TargetTable] :
            /\ r[1] = last.ret
            /\ IF last.op = "add_relation"
               THEN ForeignPair(TargetTable, r) = <<last.arg[2], last.arg[3]>>
               ELSE NaturalKey(TargetTable, r) = StoredKey(TargetTable, Record(last.arg[1]))

\* C38: in every interleaving of a writer in add_data(R), R valid, with a
\* writer in delete_all_entries on dimension tables, no relation row has a
\* non-null foreign id that is the id of no row of the table it references,
\* in any state, and add_data does not raise.
C38_NoDanglingLinkUnderDelete ==
    /\ \A u \in RelTables : \A r \in rows[u] : \A i \in {1, 2} :
          \/ IsNone(ForeignPair(u, r)[i])
          \/ \E x \in rows[RefTables(u)[i]] : x[1] = ForeignPair(u, r)[i]
    /\ \A w \in Writers : writers[w].pc # "raised"

\* add_data has returned after the other writer deleted the song it had
\* upserted: its link of the song and the album was rejected and linked
\* nothing, and its link of the album and the artist is stored.
C38_Witness ==
    \E w \in Writers :
        /\ writers[w].op = "add_data" /\ writers[w].pc = "done"
        /\ IsId(writers[w].ids[1])
        /\ ~\E x \in rows["song"] : x[1] = writers[w].ids[1]
        /\ writers[w].rels[1] = None
        /\ IsId(writers[w].rels[3])
        /\ failed

====
